---- MODULE Spec2Model ----
(***************************************************************************)
(* Multi-agent identity coordination core, explainable decision engine,    *)
(* digital twins and digital-twin registry of the universal-identity       *)
(* backend (src/unnamed/part_004).                                          *)
(*                                                                         *)
(* Numbers: probabilities, confidences and security scores are held in     *)
(* thousandths (0.85 is 850).  A quotient a/b is held as the pair          *)
(* [num |-> a, den |-> b]; den = 0 is the JavaScript NaN of 0/0, and every *)
(* comparison with NaN is false.  Time is in milliseconds since the        *)
(* process started.  JavaScript values that the code compares with ===     *)
(* carry their type in the field jsType.                                   *)
(***************************************************************************)
EXTENDS Integers, Sequences, FiniteSets, TLC

(***************************************************************************)
(* Bounds of the model.                                                    *)
(***************************************************************************)
MaxCalls == 2          \* coordinateIdentityDecision calls per behaviour
MaxAttacks == 2        \* simulateByzantineAttack calls per behaviour
MaxCreations == 1      \* twin creation calls per behaviour
MaxTime == 45000       \* the clock stops advancing here
ClockStep == 15000     \* a free advance of the clock
MaxTicks == 2          \* setInterval callbacks of a twin per behaviour
MaxTransactions == 3   \* transactions invoked on the ledger contract

(***************************************************************************)
(* Program constants.                                                      *)
(***************************************************************************)
ThresholdNum == 67             \* consensusThreshold = 0.67 = 67/100
ThresholdDen == 100
HistoryCapacity == 50          \* coordinationHistory keeps the last 50
AttackDuration == 30000        \* setTimeout(reset, 30000)
MinLatency == 50               \* sleep(Math.random() * 100 + 50): at least 50
ByzantineProbability == 300    \* Math.random() < 0.3
ByzantineConfidence == 200     \* confidence: 0.2
ByzantineSecurityScore == 100  \* securityScore: 0.1
VinLength == 17
ValidatorWeight == 40          \* confidenceWeights.validator = 0.4
ConsensusWeight == 35          \* confidenceWeights.consensus = 0.35
SecurityWeight == 25           \* confidenceWeights.security = 0.25
FallbackWeight == 33           \* || 0.33
RiskLatencyMs == 5000          \* processingTime > 5000
AnomalyLatencyMs == 3000       \* processingTime > 3000
LatencyAnomaly == 3            \* += 0.3
RatioAnomaly == 4              \* += 0.4
ByzantineAnomaly == 5          \* += 0.5
ConfidenceAnomaly == 6         \* += 0.6
AnomalyCap == 10               \* Math.min(1.0, anomalyScore)
ExplanationCapacity == 100     \* decisionHistory keeps the last 100
VehicleWindow == 20            \* telemetryData keeps the last 20
PetWindow == 15                \* vitalData keeps the last 15
IoTWindow == 12                \* statusData keeps the last 12

\* Values Math.random() takes in the model, in thousandths: both ends of [0,1).
RandomDraws == {0, 999}

\* The draw behind confidence and securityScore where rounds run concurrently.
MidDraws == {500}

(***************************************************************************)
(* The roster built by the MultiAgentCoordinator constructor.              *)
(***************************************************************************)
AgentOrder == <<"agent-validator-001", "agent-consensus-002", "agent-security-003">>

Agents == {AgentOrder[i] : i \in 1..Len(AgentOrder)}

SpecializationOf(a) ==
    CASE a = "agent-validator-001" -> "validator"
      [] a = "agent-consensus-002" -> "consensus"
      [] OTHER -> "security"

(***************************************************************************)
(* Sequence helpers: Array.prototype.slice(-n) and reduce.                  *)
(***************************************************************************)
SliceLast(s, n) ==
    IF Len(s) <= n THEN s ELSE SubSeq(s, Len(s) - n + 1, Len(s))

RECURSIVE SumField(_, _)
SumField(evaluations, field) ==
    IF evaluations = <<>> THEN 0
    ELSE Head(evaluations)[field] + SumField(Tail(evaluations), field)

(***************************************************************************)
(* JavaScript values and comparisons.                                      *)
(***************************************************************************)
Undefined == [jsType |-> "undefined"]

JsString(s) == [jsType |-> "string", val |-> s]

\* v === s for a string literal s
StrictEqualsString(v, s) == v.jsType = "string" /\ v.val = s

\* r >= n/d on numbers; false when r is NaN
RatioGE(r, n, d) == r.den # 0 /\ r.num * d >= n * r.den

(***************************************************************************)
(* IdentityAgent.generateResponse / generateByzantineResponse.             *)
(***************************************************************************)
generateResponse(a, rConf, rSec) ==
    [agentId |-> a,
     specialization |-> SpecializationOf(a),
     decision |-> "APPROVED",
     confidence |-> 850 + (rConf * 100) \div 1000,
     securityScore |-> (rSec * 300) \div 1000 + 700,
     isByzantine |-> FALSE]

generateByzantineResponse(a) ==
    [agentId |-> a,
     specialization |-> SpecializationOf(a),
     decision |-> "REJECTED",
     confidence |-> ByzantineConfidence,
     securityScore |-> ByzantineSecurityScore,
     isByzantine |-> TRUE]

(***************************************************************************)
(* MultiAgentCoordinator.calculateConsensus.                               *)
(***************************************************************************)
IsApproved(e) == e.decision = "APPROVED"

calculateConsensus(evaluations) ==
    LET approvals == Len(SelectSeq(evaluations, IsApproved))
        totalAgents == Len(evaluations)
        consensusRatio == [num |-> approvals, den |-> totalAgents]
        achieved == RatioGE(consensusRatio, ThresholdNum, ThresholdDen)
    IN [approvals |-> approvals,
        rejections |-> totalAgents - approvals,
        totalAgents |-> totalAgents,
        consensusRatio |-> consensusRatio,
        consensusAchieved |-> achieved,
        averageConfidence |->
            [num |-> SumField(evaluations, "confidence"), den |-> totalAgents],
        averageSecurityScore |->
            [num |-> SumField(evaluations, "securityScore"), den |-> totalAgents],
        recommendedDecision |-> IF achieved THEN "APPROVED" ELSE "REJECTED"]

(***************************************************************************)
(* MultiAgentCoordinator.handleByzantineFaults: the object it returns.     *)
(***************************************************************************)
IsFlagged(e) == e.isByzantine

IsHonest(e) == ~e.isByzantine

RECURSIVE AgentIds(_)
AgentIds(evaluations) ==
    IF evaluations = <<>> THEN <<>>
    ELSE <<Head(evaluations).agentId>> \o AgentIds(Tail(evaluations))

\* handleByzantineFaults keeping the uncorrected recommendation.
handleByzantineFaultsUncorrected(consensus, evaluations) ==
    LET byzantineAgents == SelectSeq(evaluations, IsFlagged)
    IN [jsType |-> "object",
        byzantineFaultHandling |->
            [byzantineAgentsDetected |-> Len(byzantineAgents),
             faultTolerant |-> TRUE],
        finalDecision |-> consensus.recommendedDecision] @@ consensus

handleByzantineFaults(consensus, evaluations) ==
    LET byzantineAgents == SelectSeq(evaluations, IsFlagged)
        honestEvaluations == SelectSeq(evaluations, IsHonest)
        honestConsensus == calculateConsensus(honestEvaluations)
    IN IF Len(byzantineAgents) > 0
       THEN [jsType |-> "object",
             byzantineFaultHandling |->
                 [byzantineAgentsDetected |-> Len(byzantineAgents),
                  byzantineAgentIds |-> AgentIds(byzantineAgents),
                  originalDecision |-> consensus.recommendedDecision,
                  correctedDecision |-> honestConsensus.recommendedDecision,
                  faultTolerant |-> TRUE],
             finalDecision |-> honestConsensus.recommendedDecision] @@ consensus
       ELSE [jsType |-> "object",
             byzantineFaultHandling |->
                 [byzantineAgentsDetected |-> 0,
                  faultTolerant |-> TRUE],
             finalDecision |-> consensus.recommendedDecision] @@ consensus

(***************************************************************************)
(* VINAuthenticator.validateVIN.  A VIN is a sequence of characters.       *)
(***************************************************************************)
Digits == {"0", "1", "2", "3", "4", "5", "6", "7", "8", "9"}

Transliteration ==
    [ch \in {"A", "B", "C", "D", "E", "F", "G", "H", "J", "K", "L", "M", "N",
             "P", "R", "S", "T", "U", "V", "W", "X", "Y", "Z"} |->
        CASE ch \in {"A", "J"} -> 1
          [] ch \in {"B", "K", "S"} -> 2
          [] ch \in {"C", "L", "T"} -> 3
          [] ch \in {"D", "M", "U"} -> 4
          [] ch \in {"E", "N", "V"} -> 5
          [] ch \in {"F", "W"} -> 6
          [] ch \in {"G", "P", "X"} -> 7
          [] ch \in {"H", "Y"} -> 8
          [] OTHER -> 9]

DigitValue ==
    [ch \in Digits |->
        CASE ch = "0" -> 0 [] ch = "1" -> 1 [] ch = "2" -> 2 [] ch = "3" -> 3
          [] ch = "4" -> 4 [] ch = "5" -> 5 [] ch = "6" -> 6 [] ch = "7" -> 7
          [] ch = "8" -> 8 [] OTHER -> 9]

DigitChar == <<"0", "1", "2", "3", "4", "5", "6", "7", "8", "9", "X">>

VinWeights == <<8, 7, 6, 5, 4, 3, 2, 10, 0, 9, 8, 7, 6, 5, 4, 3, 2>>

RECURSIVE VinSum(_, _)
VinSum(vin, i) ==
    IF i > VinLength THEN 0
    ELSE (IF vin[i] \in Digits THEN DigitValue[vin[i]] ELSE Transliteration[vin[i]])
            * VinWeights[i] + VinSum(vin, i + 1)

calculateCheckDigit(vin) == DigitChar[(VinSum(vin, 1) % 11) + 1]

validateVIN(vin) ==
    IF ~(Len(vin) = VinLength
         /\ \A i \in 1..Len(vin) : vin[i] \in Digits \cup DOMAIN Transliteration)
    THEN [valid |-> FALSE, reason |-> "Invalid VIN format"]
    ELSE IF calculateCheckDigit(vin) # vin[9]
         THEN [valid |-> FALSE, reason |-> "Invalid check digit"]
         ELSE [valid |-> TRUE, reason |-> ""]

\* Subject ids offered to the registry.
GoodVin == <<"1","H","G","C","M","8","2","6","3","3","A","0","0","4","3","5","2">>

BadCheckVin == <<"1","H","G","C","M","8","2","6","4","3","A","0","0","4","3","5","2">>

ShortVin == <<"1","H","G">>

Vins == {GoodVin, BadCheckVin, ShortVin}

PetIds == {"PET-1"}

DeviceIds == {"DEV-1"}

Variants == {"vehicle", "pet", "iot"}

SubjectsOf(variant) ==
    CASE variant = "vehicle" -> Vins
      [] variant = "pet" -> PetIds
      [] OTHER -> DeviceIds

(***************************************************************************)
(* Arguments of coordinateIdentityDecision.                                *)
(***************************************************************************)
\* metadataThrows: reading the metadata property of the argument throws (an
\* accessor property or a Proxy); generateResponse reads it on line 157.
NullIdentity == [isNull |-> TRUE, id |-> <<>>, type |-> "", metadataThrows |-> FALSE]

Identity(id, type) ==
    [isNull |-> FALSE, id |-> id, type |-> type, metadataThrows |-> FALSE]

HostileIdentity ==
    [Identity(<<"VEH-1">>, "vehicle") EXCEPT !.metadataThrows = TRUE]

ApiIdentities == {Identity(<<"VEH-1">>, "vehicle"), NullIdentity}

TwinIdentity(variant, subject) ==
    CASE variant = "vehicle" -> Identity(<<"TWIN-", subject>>, "vehicle-twin")
      [] variant = "pet" -> Identity(<<"PET-TWIN-", subject>>, "pet-twin")
      [] OTHER -> Identity(<<"IOT-TWIN-", subject>>, "iot-twin")

(***************************************************************************)
(* State.                                                                  *)
(***************************************************************************)
VARIABLES
    status,                 \* IdentityAgent.status of each roster agent
    isByzantine,            \* IdentityAgent.isByzantine
    decisionsParticipated,  \* performanceMetrics.decisionsParticipated
    coordinationHistory,    \* MultiAgentCoordinator.coordinationHistory
    sessionsCreated,        \* session objects built so far (object identity)
    now,                    \* Date.now()
    resetTimers,            \* pending setTimeout callbacks of simulateByzantineAttack
    attacksStarted,         \* simulateByzantineAttack calls made
    calls,                  \* coordinateIdentityDecision activations
    creations,              \* DigitalTwinManager.create* activations
    vehicleTwins,           \* DigitalTwinManager.vehicleTwins
    petTwins,               \* DigitalTwinManager.petTwins
    iotTwins,               \* DigitalTwinManager.iotTwins
    messageQueue,           \* MQTTSimulator.messageQueue (topics)
    evalInput,              \* argument of the functions applied on their own
    consensusOut,           \* calculateConsensus(evalInput)
    faultOut,               \* handleByzantineFaults(consensusOut, evalInput)
    timeInput,              \* processingTime of the session built from evalInput
    ledgerInput,            \* argument of ValidateIdentityData and the year of the call
    validationOut,          \* what ValidateIdentityData returned for ledgerInput
    worldState,             \* the ledger: key -> stored JSON value (ctx.stub)
    txCount,                \* contract transactions invoked so far (ctx.stub.getTxID)
    txOut,                  \* outcome of the last contract transaction
    httpOut,                \* outcome of the last handler or accessor call
    decisionHistory,        \* ExplainableDecisionEngine.decisionHistory
    explanationsCreated,    \* explanation objects built so far (object identity)
    explainOut,             \* outcome of the last explainCoordination call
    twins,                  \* digital twin objects constructed with new
    ticks                   \* setInterval callbacks run so far, per twin

rosterVars == <<status, isByzantine, decisionsParticipated>>

coordVars == <<coordinationHistory, sessionsCreated, calls>>

timerVars == <<resetTimers, attacksStarted>>

twinVars == <<creations, vehicleTwins, petTwins, iotTwins, messageQueue>>

contractVars == <<worldState, txCount, txOut>>

pureVars == <<evalInput, consensusOut, faultOut, timeInput, ledgerInput,
             validationOut, contractVars>>

engineVars == <<decisionHistory, explanationsCreated, explainOut, httpOut>>

tickVars == <<twins, ticks>>

vars == <<status, isByzantine, decisionsParticipated, coordinationHistory,
          sessionsCreated, now, resetTimers, attacksStarted,
          calls, creations, vehicleTwins, petTwins, iotTwins, messageQueue,
          evalInput, consensusOut, faultOut, timeInput, ledgerInput, validationOut,
          worldState, txCount, txOut, httpOut,
          decisionHistory, explanationsCreated, explainOut, twins, ticks>>

EmptyMap == [x \in {} |-> 0]

Calls == 1..MaxCalls

Creations == 1..MaxCreations

IdleCall ==
    [pc |-> "idle", owner |-> 0, identity |-> NullIdentity,
     coordinationStart |-> 0, coordinationId |-> 0,
     dispatched |-> <<>>, evals |-> EmptyMap,
     result |-> Undefined]

IdleCreation ==
    [pc |-> "idle", variant |-> "", subject |-> <<>>, call |-> 0, error |-> ""]

(***************************************************************************)
(* coordinateIdentityDecision, lines 259-298: what runs once Promise.all   *)
(* has resolved.                                                           *)
(***************************************************************************)
IsOnline(a) == status[a] = "online"

BuildSession(call, evaluations, t, seq) ==
    LET consensus == calculateConsensus(evaluations)
        finalDecision == handleByzantineFaults(consensus, evaluations)
    IN [jsType |-> "object",
        kind |-> "session",
        seq |-> seq,
        coordinationId |-> call.coordinationId,
        identityId |-> call.identity.id,
        participatingAgents |-> Len(evaluations),
        agentEvaluations |-> evaluations,
        consensus |-> consensus,
        finalDecision |-> finalDecision,
        processingTime |-> t - call.coordinationStart,
        byzantineDetected |->
            \E i \in 1..Len(evaluations) : evaluations[i].isByzantine]

\* RecordSession without the trim.
RecordSessionNoTrim(history, session) == Append(history, session)

\* RecordSession trimming with slice(0, 50): the newest session is dropped.
RecordSessionKeepOldest(history, session) ==
    LET pushed == Append(history, session)
    IN IF Len(pushed) > HistoryCapacity
       THEN SubSeq(pushed, 1, HistoryCapacity)
       ELSE pushed

\* push, then keep the last 50
RecordSession(history, session) ==
    LET pushed == Append(history, session)
    IN IF Len(pushed) > HistoryCapacity
       THEN SliceLast(pushed, HistoryCapacity)
       ELSE pushed

GatherAndDecide(call) ==
    LET evaluations ==
            [i \in 1..Len(call.dispatched) |-> call.evals[call.dispatched[i]]]
    IN [call EXCEPT !.pc = "returned",
                    !.result = BuildSession(call, evaluations, now,
                                            sessionsCreated + 1)]

\* The activation right after its synchronous part (lines 248-259).  Each
\* dispatched agent sleeps for 50 to 150 ms; a timer callback runs at its
\* deadline or later, so an agent may wake at any time from 50 ms on.
StartCall(owner, identityData) ==
    IF identityData.isNull
    THEN [IdleCall EXCEPT !.pc = "threw", !.owner = owner]
    ELSE LET online == SelectSeq(AgentOrder, IsOnline)
             started ==
                 [IdleCall EXCEPT
                     !.pc = "awaiting",
                     !.owner = owner,
                     !.identity = identityData,
                     !.coordinationStart = now,
                     !.coordinationId = now,
                     !.dispatched = online]
         IN IF online = <<>> THEN GatherAndDecide(started) ELSE started

Dispatched(call) == {call.dispatched[i] : i \in 1..Len(call.dispatched)}

\* What an evaluateIdentity promise rejects with when generateResponse throws.
Rejection == [jsType |-> "error", message |-> "metadata"]

\* The value returned from the catch block (lines 290-298).
FailureResult(call, t) ==
    [jsType |-> "object",
     kind |-> "failure",
     coordinationId |-> call.coordinationId,
     error |-> Rejection.message,
     processingTime |-> t - call.coordinationStart]

Collect(call, a, ev) ==
    [call EXCEPT !.evals =
        [b \in DOMAIN call.evals \cup {a} |-> IF b = a THEN ev ELSE call.evals[b]]]

\* ResolveEvaluation building a session from the evaluations that succeeded
\* when one of them fails.
ResolveEvaluationPartial(call, a, ev) ==
    LET collected == Collect(call, a, ev)
        done == SelectSeq(call.dispatched,
                          LAMBDA b : b \in DOMAIN call.evals /\ call.evals[b] # Rejection)
    IN IF call.pc # "awaiting" THEN collected
       ELSE IF ev = Rejection
            THEN GatherAndDecide([collected EXCEPT !.dispatched = done])
            ELSE IF DOMAIN collected.evals = Dispatched(call)
                 THEN GatherAndDecide(collected)
                 ELSE collected

\* The activation after agent a's evaluateIdentity has settled with ev: a
\* rejection settles Promise.all at once and the catch block returns; an
\* evaluation that settles after that changes nothing of the activation.
ResolveEvaluation(call, a, ev) ==
    LET collected == Collect(call, a, ev)
    IN IF call.pc # "awaiting" THEN collected
       ELSE IF ev = Rejection
            THEN [collected EXCEPT !.pc = "returned",
                                   !.result = FailureResult(call, now)]
            ELSE IF DOMAIN collected.evals = Dispatched(call)
                 THEN GatherAndDecide(collected)
                 ELSE collected

\* Commit pushing whatever the activation returned, failures included.
CommitEveryResult(call) ==
    IF call.pc = "returned"
    THEN /\ coordinationHistory' = RecordSession(coordinationHistory, call.result)
         /\ sessionsCreated' = sessionsCreated + 1
    ELSE UNCHANGED <<coordinationHistory, sessionsCreated>>

\* The effect of an activation's step on the session history.
Commit(call) ==
    IF call.pc = "returned" /\ call.result.kind = "session"
    THEN /\ coordinationHistory' = RecordSession(coordinationHistory, call.result)
         /\ sessionsCreated' = sessionsCreated + 1
    ELSE UNCHANGED <<coordinationHistory, sessionsCreated>>

FreeCall(c) ==
    /\ calls[c].pc = "idle"
    /\ \A d \in Calls : d < c => calls[d].pc # "idle"

(***************************************************************************)
(* ExplainableDecisionEngine (lines 397-627).  Weights are in hundredths,  *)
(* the anomaly score in tenths.                                            *)
(***************************************************************************)
\* this.confidenceWeights[specialization] || 0.33
confidenceWeight(specialization) ==
    CASE specialization = "validator" -> ValidatorWeight
      [] specialization = "consensus" -> ConsensusWeight
      [] specialization = "security" -> SecurityWeight
      [] OTHER -> FallbackWeight

\* r < n/d on numbers; false when r is NaN
RatioLT(r, n, d) == r.den # 0 /\ r.num * d < n * r.den

\* The two accumulators of the forEach of lines 466-472.
RECURSIVE WeightedConfidenceSum(_)
WeightedConfidenceSum(evaluations) ==
    IF evaluations = <<>> THEN 0
    ELSE (IF ~Head(evaluations).isByzantine
          THEN Head(evaluations).confidence
                   * confidenceWeight(Head(evaluations).specialization)
          ELSE 0) + WeightedConfidenceSum(Tail(evaluations))

RECURSIVE TotalWeightSum(_)
TotalWeightSum(evaluations) ==
    IF evaluations = <<>> THEN 0
    ELSE (IF ~Head(evaluations).isByzantine
          THEN confidenceWeight(Head(evaluations).specialization)
          ELSE 0) + TotalWeightSum(Tail(evaluations))

\* calculateDetailedConfidence counting the Byzantine evaluations as well.
calculateDetailedConfidenceAll(coordinationResult) ==
    LET agentEvaluations == coordinationResult.agentEvaluations
        unflagged == [i \in 1..Len(agentEvaluations) |->
                         [agentEvaluations[i] EXCEPT !.isByzantine = FALSE]]
        weightedConfidence == WeightedConfidenceSum(unflagged)
        totalWeight == TotalWeightSum(unflagged)
    IN [overall |-> IF totalWeight > 0
                    THEN [num |-> weightedConfidence, den |-> totalWeight]
                    ELSE [num |-> 0, den |-> 1],
        byAgent |-> [i \in 1..Len(agentEvaluations) |->
                        [agent |-> agentEvaluations[i].agentId,
                         confidence |-> agentEvaluations[i].confidence,
                         weight |-> confidenceWeight(agentEvaluations[i].specialization)]]]

calculateDetailedConfidence(coordinationResult) ==
    LET agentEvaluations == coordinationResult.agentEvaluations
        weightedConfidence == WeightedConfidenceSum(agentEvaluations)
        totalWeight == TotalWeightSum(agentEvaluations)
    IN [overall |-> IF totalWeight > 0
                    THEN [num |-> weightedConfidence, den |-> totalWeight]
                    ELSE [num |-> 0, den |-> 1],
        byAgent |-> [i \in 1..Len(agentEvaluations) |->
                        [agent |-> agentEvaluations[i].agentId,
                         confidence |-> agentEvaluations[i].confidence,
                         weight |-> confidenceWeight(agentEvaluations[i].specialization)]]]

\* identifyRiskFactors with the latency rule nested under the consensus rule.
identifyRiskFactorsNested(coordinationResult) ==
    (IF coordinationResult.byzantineDetected
     THEN <<[type |-> "Byzantine Attack", severity |-> "HIGH"]>> ELSE <<>>)
    \o (IF RatioLT(coordinationResult.consensus.consensusRatio, 8, 10)
        THEN <<[type |-> "Low Consensus", severity |-> "MEDIUM"]>>
             \o (IF coordinationResult.processingTime > RiskLatencyMs
                 THEN <<[type |-> "High Latency", severity |-> "LOW"]>> ELSE <<>>)
        ELSE <<>>)

identifyRiskFactors(coordinationResult) ==
    (IF coordinationResult.byzantineDetected
     THEN <<[type |-> "Byzantine Attack", severity |-> "HIGH"]>> ELSE <<>>)
    \o (IF RatioLT(coordinationResult.consensus.consensusRatio, 8, 10)
        THEN <<[type |-> "Low Consensus", severity |-> "MEDIUM"]>> ELSE <<>>)
    \o (IF coordinationResult.processingTime > RiskLatencyMs
        THEN <<[type |-> "High Latency", severity |-> "LOW"]>> ELSE <<>>)

Min(x, y) == IF x < y THEN x ELSE y

\* calculateAnomalyScore returning the last trigger's weight instead of the sum.
calculateAnomalyScoreLast(coordinationResult) ==
    LET afterLatency ==
            IF coordinationResult.processingTime > AnomalyLatencyMs
            THEN LatencyAnomaly ELSE 0
        afterRatio ==
            IF RatioLT(coordinationResult.consensus.consensusRatio, 7, 10)
            THEN RatioAnomaly ELSE afterLatency
        afterByzantine ==
            IF coordinationResult.byzantineDetected
            THEN ByzantineAnomaly ELSE afterRatio
        afterConfidence ==
            IF RatioLT(coordinationResult.consensus.averageConfidence, 500, 1)
            THEN ConfidenceAnomaly ELSE afterByzantine
    IN Min(AnomalyCap, afterConfidence)

calculateAnomalyScore(coordinationResult) ==
    LET afterLatency ==
            IF coordinationResult.processingTime > AnomalyLatencyMs
            THEN LatencyAnomaly ELSE 0
        afterRatio ==
            afterLatency
              + (IF RatioLT(coordinationResult.consensus.consensusRatio, 7, 10)
                 THEN RatioAnomaly ELSE 0)
        afterByzantine ==
            afterRatio
              + (IF coordinationResult.byzantineDetected THEN ByzantineAnomaly ELSE 0)
        afterConfidence ==
            afterByzantine
              + (IF RatioLT(coordinationResult.consensus.averageConfidence, 500, 1)
                 THEN ConfidenceAnomaly ELSE 0)
    IN Min(AnomalyCap, afterConfidence)

\* finalDecision.finalDecision || finalDecision (lines 433 and 566)
DecisionString(finalDecision) ==
    IF finalDecision.jsType = "object" THEN finalDecision.finalDecision
    ELSE finalDecision.val

generateSummary(coordinationResult) ==
    [decision |-> DecisionString(coordinationResult.finalDecision),
     approvals |-> coordinationResult.consensus.approvals,
     totalAgents |-> coordinationResult.consensus.totalAgents,
     byzantineNote |-> coordinationResult.byzantineDetected,
     confidence |-> coordinationResult.consensus.averageConfidence]

\* The steps of generateReasoningSteps, by their action.
generateReasoningSteps(coordinationResult) ==
    <<"Identity Data Validation", "Multi-Agent Coordination">>
    \o (IF coordinationResult.byzantineDetected
        THEN <<"Byzantine Fault Handling">> ELSE <<>>)
    \o <<"Final Decision">>

\* identityId.includes('VEH'), then 'PET', then 'IOT', on the ids of the model.
encodeIdentityType(identityId) ==
    CASE Head(identityId) = "VEH-1" -> 1
      [] Head(identityId) = "PET-TWIN-" -> 2
      [] Head(identityId) = "IOT-TWIN-" -> 3
      [] OTHER -> 0

generateMLFeatures(coordinationResult) ==
    [features |->
        [agent_count |-> coordinationResult.participatingAgents,
         consensus_ratio |-> coordinationResult.consensus.consensusRatio,
         avg_confidence |-> coordinationResult.consensus.averageConfidence,
         processing_time_ms |-> coordinationResult.processingTime,
         byzantine_detected |-> IF coordinationResult.byzantineDetected THEN 1 ELSE 0,
         security_score |-> coordinationResult.consensus.averageSecurityScore,
         identity_type |-> encodeIdentityType(coordinationResult.identityId)],
     target |-> IF DecisionString(coordinationResult.finalDecision) = "APPROVED"
                THEN 1 ELSE 0]

\* What explainCoordination throws on a result without finalDecision: line 433
\* reads a property of undefined.
TypeError == [jsType |-> "error", kind |-> "threw", error |-> "TypeError"]

\* Lines 408-418: the explanation object, or the error thrown while building it.
explainCoordination(coordinationResult, seq) ==
    IF coordinationResult.kind # "session" THEN TypeError
    ELSE [jsType |-> "object",
          kind |-> "explanation",
          seq |-> seq,
          coordinationId |-> coordinationResult.coordinationId,
          summary |-> generateSummary(coordinationResult),
          confidenceBreakdown |-> calculateDetailedConfidence(coordinationResult),
          riskFactors |-> identifyRiskFactors(coordinationResult),
          reasoning |-> generateReasoningSteps(coordinationResult),
          mlFeatures |-> generateMLFeatures(coordinationResult),
          anomalyScore |-> calculateAnomalyScore(coordinationResult)]

\* RecordExplanation without the trim.
RecordExplanationNoTrim(history, explanation) == Append(history, explanation)

\* push, then keep the last 100 (lines 420-425)
RecordExplanation(history, explanation) ==
    LET pushed == Append(history, explanation)
    IN IF Len(pushed) > ExplanationCapacity
       THEN SliceLast(pushed, ExplanationCapacity)
       ELSE pushed

\* explainCoordination(coordinationResult) as a step of the engine.
Explain(coordinationResult) ==
    LET out == explainCoordination(coordinationResult, explanationsCreated + 1)
    IN /\ explainOut' = out
       /\ IF out.kind = "explanation"
          THEN /\ decisionHistory' = RecordExplanation(decisionHistory, out)
               /\ explanationsCreated' = explanationsCreated + 1
          ELSE UNCHANGED <<decisionHistory, explanationsCreated>>
       /\ UNCHANGED httpOut

(***************************************************************************)
(* DigitalTwinManager.create*: what runs once the coordination round has   *)
(* returned (lines 1457-1478, 1488-1502, 1512-1526).                       *)
(***************************************************************************)
FinalDecisionOf(result) ==
    IF result.kind = "session" THEN result.finalDecision ELSE Undefined

Rejected(result) == ~StrictEqualsString(FinalDecisionOf(result), "APPROVED")

NewTwin(variant, subject) ==
    [twinId |-> TwinIdentity(variant, subject).id,
     variant |-> variant,
     subject |-> subject,
     readings |-> <<>>,
     healthScore |-> 100,
     alertCount |-> 0,
     timerActive |-> TRUE]

MapSet(map, key, value) ==
    [k \in DOMAIN map \cup {key} |-> IF k = key THEN value ELSE map[k]]

CreatedTopic(variant) ==
    CASE variant = "vehicle" -> "vehicle/twin/created"
      [] variant = "pet" -> "pet/twin/created"
      [] OTHER -> "iot/twin/created"

TwinsOf(variant) ==
    CASE variant = "vehicle" -> vehicleTwins
      [] variant = "pet" -> petTwins
      [] OTHER -> iotTwins

\* new Error(message), as the create* methods throw it (lines 1447, 1458,
\* 1489, 1513): an object whose own data is the message.
ErrorObject(message) == [jsType |-> "error", message |-> message]

\* ResumeCreation registering the twin before it looks at the decision.
ResumeCreationStoreFirst(t, creation, result) ==
    /\ creations' = [creations EXCEPT ![t] =
           IF Rejected(result)
           THEN [creation EXCEPT !.pc = "threw",
                                 !.error = "rejected by multi-agent consensus"]
           ELSE [creation EXCEPT !.pc = "returned"]]
    /\ vehicleTwins' =
           IF creation.variant = "vehicle"
           THEN MapSet(vehicleTwins, creation.subject,
                       NewTwin("vehicle", creation.subject))
           ELSE vehicleTwins
    /\ petTwins' =
           IF creation.variant = "pet"
           THEN MapSet(petTwins, creation.subject, NewTwin("pet", creation.subject))
           ELSE petTwins
    /\ iotTwins' =
           IF creation.variant = "iot"
           THEN MapSet(iotTwins, creation.subject, NewTwin("iot", creation.subject))
           ELSE iotTwins
    /\ messageQueue' = IF Rejected(result) THEN messageQueue
                       ELSE Append(messageQueue, CreatedTopic(creation.variant))

ResumeCreation(t, creation, result) ==
    IF Rejected(result)
    THEN /\ creations' = [creations EXCEPT ![t] =
                [creation EXCEPT !.pc = "threw",
                                 !.error = "rejected by multi-agent consensus"]]
         /\ UNCHANGED <<vehicleTwins, petTwins, iotTwins, messageQueue>>
    ELSE /\ creations' = [creations EXCEPT ![t] = [creation EXCEPT !.pc = "returned"]]
         /\ vehicleTwins' =
                IF creation.variant = "vehicle"
                THEN MapSet(vehicleTwins, creation.subject,
                            NewTwin("vehicle", creation.subject))
                ELSE vehicleTwins
         /\ petTwins' =
                IF creation.variant = "pet"
                THEN MapSet(petTwins, creation.subject, NewTwin("pet", creation.subject))
                ELSE petTwins
         /\ iotTwins' =
                IF creation.variant = "iot"
                THEN MapSet(iotTwins, creation.subject, NewTwin("iot", creation.subject))
                ELSE iotTwins
         /\ messageQueue' = Append(messageQueue, CreatedTopic(creation.variant))

\* The caller of an activation continues in the same turn of the event loop.
\* The owner of an activation is a create* activation, the handler of
\* POST /api/agents/coordinate/:identityId (lines 1811-1840), or no one (0).
ExplainHandler == 0 - 1

\* The owner that is the handler of POST /api/identity/register.
RegisterHandler == 0 - 2

\* What the register handler answers once the round has returned (lines
\* 2717-2776): the ledger's RegisterIdentity is invoked and 200 sent when
\* coordinationResult.finalDecision === 'APPROVED', whether or not the
\* ledger call succeeds; otherwise 400 with the decision as reason.
RegisterResponse(result) ==
    IF StrictEqualsString(FinalDecisionOf(result), "APPROVED")
    THEN [status |-> 200, ledgerInvoked |-> TRUE,
          coordinationId |-> result.coordinationId]
    ELSE [status |-> 400, ledgerInvoked |-> FALSE,
          coordinationId |-> result.coordinationId]

ResumeOwner(call) ==
    IF call.pc = "returned" /\ call.owner \in Creations
    THEN /\ ResumeCreation(call.owner, creations[call.owner], call.result)
         /\ UNCHANGED engineVars
    ELSE IF call.pc = "returned" /\ call.owner = ExplainHandler
         THEN /\ Explain(call.result)
              /\ UNCHANGED twinVars
         ELSE IF call.pc = "returned" /\ call.owner = RegisterHandler
              THEN /\ httpOut' = RegisterResponse(call.result)
                   /\ UNCHANGED <<twinVars, decisionHistory, explanationsCreated,
                                  explainOut>>
              ELSE UNCHANGED <<twinVars, engineVars>>

(***************************************************************************)
(* The digital twins (lines 735-1322): the reading a twin holds, its       *)
(* window and its health score.  Readings are in thousandths of their      *)
(* unit and hold the fields the health score reads; a draw d gives the     *)
(* value of Math.random(), in thousandths, behind each field.              *)
(***************************************************************************)
WindowCapacity(variant) ==
    CASE variant = "vehicle" -> VehicleWindow
      [] variant = "pet" -> PetWindow
      [] OTHER -> IoTWindow

Max(x, y) == IF x > y THEN x ELSE y

\* Math.max(lo, Math.min(hi, x))
Clamp(lo, hi, x) == Max(lo, Min(hi, x))

\* current || fallback on numbers: 0 is falsy
OrDefault(current, fallback) == IF current = 0 THEN fallback ELSE current

\* statuses[Math.floor(Math.random() * statuses.length)] (lines 1210-1211)
IoTStatuses == <<"online", "online", "online", "warning", "offline">>

generateInitialState(variant, d) ==
    CASE variant = "vehicle" ->
             [engineTemp |-> 60000 + d.engineTemp * 30,
              oilPressure |-> 30000 + d.oilPressure * 25,
              batteryVoltage |-> 12200 + (d.batteryVoltage * 6) \div 10,
              diagnosticCodes |-> 0]
      [] variant = "pet" ->
             [heartRate |-> 80000 + d.heartRate * 40,
              bodyTemp |-> 38000 + (d.bodyTemp * 15) \div 10,
              activityLevel |-> d.activityLevel * 100,
              batteryLevel |-> 80000 + d.batteryLevel * 20]
      [] OTHER ->
             [status |-> "online",
              cpuUsage |-> 20000 + d.cpuUsage * 30,
              memoryUsage |-> 30000 + d.memoryUsage * 40,
              temperature |-> 35000 + d.temperature * 15,
              batteryLevel |-> 80000 + d.batteryLevel * 20]

\* The data of the reading a tick samples from the current one: the
\* simulate* methods of the three classes.
simulateData(variant, currentState, d) ==
    CASE variant = "vehicle" ->
             [engineTemp |->
                  Clamp(50000, 120000,
                        OrDefault(currentState.engineTemp, 75000)
                            + (d.engineTemp - 500) * 10),
              oilPressure |->
                  Clamp(20000, 60000,
                        OrDefault(currentState.oilPressure, 40000)
                            + (d.oilPressure - 500) * 5),
              batteryVoltage |->
                  Clamp(11800, 14200,
                        OrDefault(currentState.batteryVoltage, 12500)
                            + ((d.batteryVoltage - 500) * 3) \div 10),
              diagnosticCodes |-> IF d.diagnosticCodes < 950 THEN 0 ELSE 1]
      [] variant = "pet" ->
             [heartRate |->
                  (Clamp(60000, 160000,
                         OrDefault(currentState.heartRate, 100000)
                             + (d.heartRate - 500) * 10)
                     * (IF currentState.activityLevel > 70000 THEN 13 ELSE 10)) \div 10,
              bodyTemp |->
                  Clamp(37500, 40000,
                        OrDefault(currentState.bodyTemp, 38500)
                            + ((d.bodyTemp - 500) * 3) \div 10),
              activityLevel |->
                  Min(100000, IF d.hour >= 6 /\ d.hour <= 22
                              THEN 30000 + d.activityLevel * 50
                              ELSE d.activityLevel * 20),
              batteryLevel |->
                  Max(0, OrDefault(currentState.batteryLevel, 90000)
                             - d.batteryLevel \div 2)]
      [] OTHER ->
             [status |-> IoTStatuses[(d.status * Len(IoTStatuses)) \div 1000 + 1],
              cpuUsage |->
                  Clamp(5000, 95000,
                        OrDefault(currentState.cpuUsage, 25000)
                            + (d.cpuUsage - 500) * 10),
              memoryUsage |->
                  Clamp(10000, 90000,
                        OrDefault(currentState.memoryUsage, 50000)
                            + (d.memoryUsage - 500) * 8),
              temperature |->
                  Clamp(20000, 70000,
                        OrDefault(currentState.temperature, 40000)
                            + (d.temperature - 500) * 5),
              batteryLevel |->
                  Max(0, OrDefault(currentState.batteryLevel, 90000)
                             - (d.batteryLevel * 3) \div 10)]

\* updateHealthScore leaving the diagnostic codes out of the score.
updateHealthScoreNoCodes(variant, currentState) ==
    CASE variant = "vehicle" ->
             Max(0, 100
                 - (IF currentState.engineTemp > 100000 THEN 20
                    ELSE IF currentState.engineTemp > 90000 THEN 10 ELSE 0)
                 - (IF currentState.oilPressure < 25000 THEN 15 ELSE 0)
                 - (IF currentState.batteryVoltage < 12000 THEN 10 ELSE 0))
      [] variant = "pet" ->
             Max(0, 100
                 - (IF currentState.heartRate > 140000 THEN 15 ELSE 0)
                 - (IF currentState.bodyTemp > 39500 THEN 20 ELSE 0)
                 - (IF currentState.activityLevel < 20000 THEN 10 ELSE 0)
                 - (IF currentState.batteryLevel < 20000 THEN 5 ELSE 0))
      [] OTHER ->
             Max(0, 100
                 - (IF currentState.status = "offline" THEN 50
                    ELSE IF currentState.status = "warning" THEN 20 ELSE 0)
                 - (IF currentState.cpuUsage > 80000 THEN 15 ELSE 0)
                 - (IF currentState.memoryUsage > 80000 THEN 15 ELSE 0)
                 - (IF currentState.temperature > 60000 THEN 20 ELSE 0)
                 - (IF currentState.batteryLevel < 20000 THEN 10 ELSE 0))

\* The score updateHealthScore assigns for a current reading (lines 855-871,
\* 1084-1092, 1249-1260).
updateHealthScore(variant, currentState) ==
    CASE variant = "vehicle" ->
             Max(0, 100
                 - (IF currentState.engineTemp > 100000 THEN 20
                    ELSE IF currentState.engineTemp > 90000 THEN 10 ELSE 0)
                 - (IF currentState.oilPressure < 25000 THEN 15 ELSE 0)
                 - (IF currentState.batteryVoltage < 12000 THEN 10 ELSE 0)
                 - currentState.diagnosticCodes * 5)
      [] variant = "pet" ->
             Max(0, 100
                 - (IF currentState.heartRate > 140000 THEN 15 ELSE 0)
                 - (IF currentState.bodyTemp > 39500 THEN 20 ELSE 0)
                 - (IF currentState.activityLevel < 20000 THEN 10 ELSE 0)
                 - (IF currentState.batteryLevel < 20000 THEN 5 ELSE 0))
      [] OTHER ->
             Max(0, 100
                 - (IF currentState.status = "offline" THEN 50
                    ELSE IF currentState.status = "warning" THEN 20 ELSE 0)
                 - (IF currentState.cpuUsage > 80000 THEN 15 ELSE 0)
                 - (IF currentState.memoryUsage > 80000 THEN 15 ELSE 0)
                 - (IF currentState.temperature > 60000 THEN 20 ELSE 0)
                 - (IF currentState.batteryLevel < 20000 THEN 10 ELSE 0))

\* new VehicleDigitalTwin / PetDigitalTwin / IoTDeviceDigitalTwin: the score
\* is set to 100 and the first reading drawn; updates counts the readings
\* sampled since (the identity of a window entry).
ConstructTwin(variant, subject, d) ==
    [twinId |-> TwinIdentity(variant, subject).id,
     variant |-> variant,
     subject |-> subject,
     readings |-> <<>>,
     currentState |-> generateInitialState(variant, d),
     healthScore |-> 100,
     alertCount |-> 0,
     timerActive |-> TRUE,
     updates |-> 0]

\* RecordReading trimming with slice(0, capacity): the newest entry is dropped.
RecordReadingKeepOldest(variant, window, newData) ==
    LET pushed == Append(window, newData)
    IN IF Len(pushed) > WindowCapacity(variant)
       THEN SubSeq(pushed, 1, WindowCapacity(variant))
       ELSE pushed

\* push, then keep the last 20, 15 or 12 entries
RecordReading(variant, window, newData) ==
    LET pushed == Append(window, newData)
    IN IF Len(pushed) > WindowCapacity(variant)
       THEN SliceLast(pushed, WindowCapacity(variant))
       ELSE pushed

\* updateHealthScore averaging the new score with the score the twin held.
UpdateHealthScoreSmoothed(twin) ==
    [twin EXCEPT
        !.healthScore =
            (twin.healthScore
               + updateHealthScore(twin.variant, twin.currentState)) \div 2]

\* The effect of the updateHealthScore method on the twin it is called on:
\* the score of this.currentState is stored, and a vehicle counts its first
\* alert when that score is under 80 (lines 873-876).
\* updateHealthScore counting an alert on every low-health reading.
UpdateHealthScoreAlertEachTime(twin) ==
    LET score == updateHealthScore(twin.variant, twin.currentState)
    IN [twin EXCEPT
           !.healthScore = score,
           !.alertCount = IF twin.variant = "vehicle" /\ score < 80
                          THEN twin.alertCount + 1 ELSE twin.alertCount]

UpdateHealthScore(twin) ==
    LET score == updateHealthScore(twin.variant, twin.currentState)
    IN [twin EXCEPT
           !.healthScore = score,
           !.alertCount = IF twin.variant = "vehicle" /\ score < 80
                             /\ twin.alertCount = 0
                          THEN 1 ELSE twin.alertCount]

\* updateTelemetryData / updateVitalData / updateStatusData with draw d.
updateData(twin, d) ==
    LET newData == [seq |-> twin.updates + 1,
                    data |-> simulateData(twin.variant, twin.currentState, d)]
    IN UpdateHealthScore(
           [twin EXCEPT
               !.readings = RecordReading(twin.variant, twin.readings, newData),
               !.currentState = newData.data,
               !.updates = twin.updates + 1])

(***************************************************************************)
(* Initial state: the three module-level singletons right after            *)
(* construction (lines 1637-1639).                                         *)
(***************************************************************************)
InitRoster ==
    /\ status = [a \in Agents |-> "online"]
    /\ isByzantine = [a \in Agents |-> FALSE]
    /\ decisionsParticipated = [a \in Agents |-> 0]

InitCoordinator ==
    /\ coordinationHistory = <<>>
    /\ sessionsCreated = 0
    /\ calls = [c \in Calls |-> IdleCall]

InitEnvironment ==
    /\ now = 0
    /\ resetTimers = <<>>
    /\ attacksStarted = 0

InitTwins ==
    /\ creations = [t \in Creations |-> IdleCreation]
    /\ vehicleTwins = EmptyMap
    /\ petTwins = EmptyMap
    /\ iotTwins = EmptyMap
    /\ messageQueue = <<>>

\* No contract transaction invoked and no handler run: an empty ledger.
InitContractIdle ==
    /\ worldState = EmptyMap
    /\ txCount = 0
    /\ txOut = Undefined
    /\ httpOut = Undefined

InitPureIdle ==
    /\ evalInput = <<>>
    /\ consensusOut = Undefined
    /\ faultOut = Undefined
    /\ timeInput = 0
    /\ ledgerInput = Undefined
    /\ validationOut = Undefined
    /\ InitContractIdle

InitEngine ==
    /\ decisionHistory = <<>>
    /\ explanationsCreated = 0
    /\ explainOut = Undefined

InitNoTwin ==
    /\ twins = EmptyMap
    /\ ticks = EmptyMap

Init ==
    /\ InitRoster
    /\ InitCoordinator
    /\ InitEnvironment
    /\ InitTwins
    /\ InitPureIdle
    /\ InitEngine
    /\ InitNoTwin

(***************************************************************************)
(* Actions of the coordinator.                                             *)
(***************************************************************************)
\* A caller invokes coordinateIdentityDecision(identityData).
CoordinateIdentityDecision(c, identityData) ==
    /\ FreeCall(c)
    /\ LET call == StartCall(0, identityData)
       IN /\ calls' = [calls EXCEPT ![c] = call]
          /\ Commit(call)
    /\ UNCHANGED <<rosterVars, now, timerVars, twinVars, pureVars, engineVars, tickVars>>

\* The handler of POST /api/agents/coordinate/:identityId: the round, then
\* explainCoordination on what it returned (lines 1824-1827).
CoordinateAndExplain(c, identityData) ==
    /\ FreeCall(c)
    /\ ~identityData.isNull
    /\ LET call == StartCall(ExplainHandler, identityData)
       IN /\ calls' = [calls EXCEPT ![c] = call]
          /\ Commit(call)
          /\ IF call.pc = "returned"
             THEN Explain(call.result)
             ELSE UNCHANGED engineVars
    /\ UNCHANGED <<rosterVars, now, timerVars, twinVars, pureVars, tickVars>>

\* The handler of POST /api/identity/register up to its await (lines
\* 2699-2715): a body without id or type is answered 400 at once.
RegisterRequest(c, identityData) ==
    /\ FreeCall(c)
    /\ ~identityData.isNull
    /\ IF identityData.id = <<>> \/ identityData.type = ""
       THEN /\ httpOut' = [status |-> 400, ledgerInvoked |-> FALSE,
                           coordinationId |-> Undefined]
            /\ UNCHANGED <<coordVars, decisionHistory, explanationsCreated,
                           explainOut>>
       ELSE LET call == StartCall(RegisterHandler, identityData)
            IN /\ calls' = [calls EXCEPT ![c] = call]
               /\ Commit(call)
               /\ IF call.pc = "returned"
                  THEN /\ httpOut' = RegisterResponse(call.result)
                       /\ UNCHANGED <<decisionHistory, explanationsCreated,
                                      explainOut>>
                  ELSE UNCHANGED engineVars
    /\ UNCHANGED <<rosterVars, now, timerVars, twinVars, pureVars, tickVars>>

\* evaluateIdentity deciding on the random draw alone, whatever the flag.
EvaluateIdentityUnflagged(c, a, rByz, rConf, rSec) ==
    /\ calls[c].pc \in {"awaiting", "returned"}
    /\ a \in Dispatched(calls[c]) \ DOMAIN calls[c].evals
    /\ now >= calls[c].coordinationStart + MinLatency
    /\ decisionsParticipated' =
           [decisionsParticipated EXCEPT ![a] = decisionsParticipated[a] + 1]
    /\ LET ev == IF rByz < ByzantineProbability
                 THEN generateByzantineResponse(a)
                 ELSE IF calls[c].identity.metadataThrows
                      THEN Rejection
                      ELSE generateResponse(a, rConf, rSec)
           call == ResolveEvaluation(calls[c], a, ev)
       IN /\ calls' = [calls EXCEPT ![c] = call]
          /\ IF calls[c].pc = "awaiting"
             THEN Commit(call) /\ ResumeOwner(call)
             ELSE UNCHANGED <<coordinationHistory, sessionsCreated, twinVars, engineVars>>
    /\ UNCHANGED <<status, isByzantine, now, timerVars, pureVars, tickVars>>

\* Agent a's sleep ends inside evaluateIdentity (lines 145-153); when it is the
\* last one of the round, the round and its caller run to completion.
EvaluateIdentity(c, a, rByz, rConf, rSec) ==
    /\ calls[c].pc \in {"awaiting", "returned"}
    /\ a \in Dispatched(calls[c]) \ DOMAIN calls[c].evals
    /\ now >= calls[c].coordinationStart + MinLatency
    /\ decisionsParticipated' =
           [decisionsParticipated EXCEPT ![a] = decisionsParticipated[a] + 1]
    /\ LET ev == IF isByzantine[a] /\ rByz < ByzantineProbability
                 THEN generateByzantineResponse(a)
                 ELSE IF calls[c].identity.metadataThrows
                      THEN Rejection
                      ELSE generateResponse(a, rConf, rSec)
           call == ResolveEvaluation(calls[c], a, ev)
       IN /\ calls' = [calls EXCEPT ![c] = call]
          /\ IF calls[c].pc = "awaiting"
             THEN Commit(call) /\ ResumeOwner(call)
             ELSE UNCHANGED <<coordinationHistory, sessionsCreated, twinVars, engineVars>>
    /\ UNCHANGED <<status, isByzantine, now, timerVars, pureVars, tickVars>>

\* simulateByzantineAttack with Math.floor(Math.random() * 3) = i - 1.
SimulateByzantineAttack(i) ==
    /\ attacksStarted < MaxAttacks
    /\ attacksStarted' = attacksStarted + 1
    /\ isByzantine' = [isByzantine EXCEPT ![AgentOrder[i]] = TRUE]
    /\ resetTimers' = Append(resetTimers,
                             [agent |-> AgentOrder[i], due |-> now + AttackDuration])
    /\ UNCHANGED <<status, decisionsParticipated, coordVars, now,
                   twinVars, pureVars, engineVars, tickVars>>

\* ResetByzantine dropping the timer and leaving the flag as it is.
ResetByzantineKeepsFlag ==
    /\ resetTimers # <<>>
    /\ now >= Head(resetTimers).due
    /\ resetTimers' = Tail(resetTimers)
    /\ UNCHANGED <<rosterVars, coordVars, now, attacksStarted, twinVars, pureVars,
                   engineVars, tickVars>>

\* The oldest pending reset callback runs (lines 374-377).
ResetByzantine ==
    /\ resetTimers # <<>>
    /\ now >= Head(resetTimers).due
    /\ isByzantine' = [isByzantine EXCEPT ![Head(resetTimers).agent] = FALSE]
    /\ resetTimers' = Tail(resetTimers)
    /\ UNCHANGED <<status, decisionsParticipated, coordVars, now, attacksStarted, twinVars, pureVars, engineVars, tickVars>>

\* Time passes until the oldest pending reset timer is due.
TimerDue ==
    /\ resetTimers # <<>>
    /\ now < Head(resetTimers).due
    /\ now' = Head(resetTimers).due
    /\ UNCHANGED <<rosterVars, coordVars, timerVars, twinVars, pureVars,
                   engineVars, tickVars>>

\* IdentityAgent.updateStatus(newStatus).
UpdateStatus(a, newStatus) ==
    /\ status[a] # newStatus
    /\ status' = [status EXCEPT ![a] = newStatus]
    /\ UNCHANGED <<isByzantine, decisionsParticipated, coordVars, now, timerVars,
                   twinVars, pureVars, engineVars, tickVars>>

\* The clock advances, by a free step or to a pending deadline.
Deadlines ==
    {resetTimers[i].due : i \in 1..Len(resetTimers)}
        \cup {calls[c].coordinationStart + MinLatency :
                  c \in {d \in Calls : calls[d].pc = "awaiting"}}

Tick(t) ==
    /\ t > now
    /\ t <= MaxTime
    /\ now' = t
    /\ UNCHANGED <<rosterVars, coordVars, timerVars, twinVars, pureVars, engineVars, tickVars>>

(***************************************************************************)
(* Actions of the twin registry.                                           *)
(***************************************************************************)
FreeCreation(t) ==
    /\ creations[t].pc = "idle"
    /\ \A u \in Creations : u < t => creations[u].pc # "idle"

\* createDigitalTwin / createPetTwin / createIoTTwin up to their await.
CreateTwin(t, variant, subject) ==
    /\ FreeCreation(t)
    /\ IF variant = "vehicle" /\ ~validateVIN(subject).valid
       THEN /\ creations' = [creations EXCEPT ![t] =
                   [IdleCreation EXCEPT !.pc = "threw",
                                        !.variant = variant,
                                        !.subject = subject,
                                        !.error = validateVIN(subject).reason]]
            /\ UNCHANGED <<coordVars, vehicleTwins, petTwins, iotTwins, messageQueue>>
       ELSE \E c \in Calls :
              /\ FreeCall(c)
              /\ LET call == StartCall(t, TwinIdentity(variant, subject))
                     creation == [IdleCreation EXCEPT !.pc = "awaiting",
                                                      !.variant = variant,
                                                      !.subject = subject,
                                                      !.call = c]
                 IN /\ calls' = [calls EXCEPT ![c] = call]
                    /\ Commit(call)
                    /\ IF call.pc = "returned"
                       THEN ResumeCreation(t, creation, call.result)
                       ELSE /\ creations' = [creations EXCEPT ![t] = creation]
                            /\ UNCHANGED <<vehicleTwins, petTwins, iotTwins,
                                           messageQueue>>
    /\ UNCHANGED <<rosterVars, now, timerVars, pureVars, engineVars, tickVars>>

(***************************************************************************)
(* The functions applied on their own to an evaluation list.               *)
(***************************************************************************)
\* What an evaluation of agent a can be: the two ends of an honest response,
\* the malicious response, and an honest rejection.
EvaluationSamples(a) ==
    {generateResponse(a, 0, 0),
     generateResponse(a, 999, 999),
     generateByzantineResponse(a),
     [generateResponse(a, 0, 999) EXCEPT !.decision = "REJECTED"]}

\* Evaluation lists as Promise.all returns them: of some agents of the
\* roster, in roster order, one evaluation each.
RosterSubsequences ==
    {SelectSeq(AgentOrder, LAMBDA a : a \in chosen) : chosen \in SUBSET Agents}

EvaluationChoices ==
    {choice \in [Agents -> UNION {EvaluationSamples(a) : a \in Agents}] :
        \A a \in Agents : choice[a] \in EvaluationSamples(a)}

EvaluationLists ==
    {[i \in 1..Len(order) |-> choice[order[i]]] :
        order \in RosterSubsequences, choice \in EvaluationChoices}

InitPure ==
    /\ InitRoster
    /\ InitCoordinator
    /\ InitEnvironment
    /\ InitTwins
    /\ evalInput \in EvaluationLists
    /\ consensusOut = Undefined
    /\ faultOut = Undefined
    /\ timeInput = 0
    /\ ledgerInput = Undefined
    /\ validationOut = Undefined
    /\ InitContractIdle
    /\ InitEngine
    /\ InitNoTwin

CalculateConsensus ==
    /\ consensusOut = Undefined
    /\ consensusOut' = calculateConsensus(evalInput) @@ [jsType |-> "object"]
    /\ UNCHANGED <<rosterVars, coordVars, now, timerVars, twinVars,
                   evalInput, faultOut, timeInput, ledgerInput, validationOut,
                   contractVars,
                   engineVars, tickVars>>

HandleByzantineFaults ==
    /\ consensusOut # Undefined
    /\ faultOut = Undefined
    /\ faultOut' = handleByzantineFaults(calculateConsensus(evalInput), evalInput)
    /\ UNCHANGED <<rosterVars, coordVars, now, timerVars, twinVars,
                   evalInput, consensusOut, timeInput, ledgerInput, validationOut,
                   contractVars,
                   engineVars, tickVars>>

NextPure == CalculateConsensus \/ HandleByzantineFaults

SpecPure == InitPure /\ [][NextPure]_vars

(***************************************************************************)
(* explainCoordination applied on its own to a session.                    *)
(***************************************************************************)
\* Evaluations of an IdentityAgent whose specialization is outside the weight
\* table: an honest one and a malicious one.
GuestSamples ==
    {[generateResponse("agent-auditor-004", 0, 999) EXCEPT !.specialization = "auditor"],
     [generateByzantineResponse("agent-auditor-004") EXCEPT !.specialization = "auditor"]}

EngineLists ==
    EvaluationLists
        \cup {Append(list, guest) :
                 list \in {l \in EvaluationLists : Len(l) < Len(AgentOrder)},
                 guest \in GuestSamples}

\* Processing times on both sides of the two latency thresholds.
ProcessingTimes ==
    {MinLatency, AnomalyLatencyMs, AnomalyLatencyMs + 1, RiskLatencyMs, RiskLatencyMs + 1}

\* The session coordinateIdentityDecision builds from the evaluations after t ms.
SessionOf(evaluations, t) ==
    BuildSession([IdleCall EXCEPT !.identity = Identity(<<"VEH-1">>, "vehicle")],
                 evaluations, t, 1)

InitEngineInput ==
    /\ InitRoster
    /\ InitCoordinator
    /\ InitEnvironment
    /\ InitTwins
    /\ evalInput \in EngineLists
    /\ timeInput \in ProcessingTimes
    /\ consensusOut = Undefined
    /\ faultOut = Undefined
    /\ ledgerInput = Undefined
    /\ validationOut = Undefined
    /\ InitContractIdle
    /\ InitEngine
    /\ InitNoTwin

ExplainSession ==
    /\ explainOut = Undefined
    /\ Explain(SessionOf(evalInput, timeInput))
    /\ UNCHANGED <<rosterVars, coordVars, now, timerVars, twinVars, pureVars, tickVars>>

NextEngine == ExplainSession

SpecEngine == InitEngineInput /\ [][NextEngine]_vars

(***************************************************************************)
(* Specifications of the running service.                                  *)
(***************************************************************************)
Statuses == {"online", "offline"}

\* Callers of the coordinator, one request after another, agents going
\* offline and online, the clock moving from deadline to deadline.
Next ==
    \/ \E c \in Calls, identityData \in ApiIdentities :
          /\ \A d \in Calls : calls[d].pc # "awaiting"
          /\ CoordinateIdentityDecision(c, identityData)
    \/ \E c \in Calls, a \in Agents, rByz \in RandomDraws, rConf, rSec \in MidDraws :
          EvaluateIdentity(c, a, rByz, rConf, rSec)
    \/ \E a \in Agents, newStatus \in Statuses : UpdateStatus(a, newStatus)
    \/ \E t \in Deadlines : Tick(t)

Spec == Init /\ [][Next]_vars

\* Callers of the twin registry, one creation request after another.
NextTwin ==
    \/ \E t \in Creations, variant \in Variants :
          \E subject \in SubjectsOf(variant) :
              /\ \A u \in Creations : creations[u].pc # "awaiting"
              /\ CreateTwin(t, variant, subject)
    \/ \E c \in Calls, a \in Agents, rByz \in RandomDraws, rConf, rSec \in MidDraws :
          EvaluateIdentity(c, a, rByz, rConf, rSec)
    \/ \E a \in Agents, newStatus \in Statuses : UpdateStatus(a, newStatus)
    \/ \E t \in Deadlines : Tick(t)

SpecTwin == Init /\ [][NextTwin]_vars

\* Attack simulations and their reset timers against running rounds.
NextAttack ==
    \/ \E i \in 1..Len(AgentOrder) : SimulateByzantineAttack(i)
    \/ ResetByzantine
    \/ \E t \in Deadlines \cup {now + ClockStep} : Tick(t)
    \/ CoordinateIdentityDecision(1, Identity(<<"VEH-1">>, "vehicle"))
    \/ \E a \in Agents, rByz \in RandomDraws, rConf, rSec \in MidDraws :
          EvaluateIdentity(1, a, rByz, rConf, rSec)

SpecAttack == Init /\ [][NextAttack]_vars

\* A caller that runs a round and explains what it returned, as the
\* coordinate-and-explain handler does, with an argument whose metadata can
\* or cannot be read (an object built by the caller), while agents change
\* status and attacks start.  The round is over long before a reset timer is
\* due.
DispatchIdentities == {Identity(<<"VEH-1">>, "vehicle"), HostileIdentity}

CallDeadlines ==
    {calls[c].coordinationStart + MinLatency :
        c \in {d \in Calls : calls[d].pc = "awaiting"}}

NextDispatch ==
    \/ \E identityData \in DispatchIdentities : CoordinateAndExplain(1, identityData)
    \/ \E a \in Agents, rByz \in RandomDraws, rConf, rSec \in MidDraws :
          EvaluateIdentity(1, a, rByz, rConf, rSec)
    \/ \E a \in Agents, newStatus \in Statuses : UpdateStatus(a, newStatus)
    \/ \E i \in 1..Len(AgentOrder) : SimulateByzantineAttack(i)
    \/ \E t \in CallDeadlines : Tick(t)

SpecDispatch == Init /\ [][NextDispatch]_vars

\* Requests to the register handler while agents change status and attacks
\* start.
RegisterBodies == {Identity(<<"VEH-1">>, "vehicle"), Identity(<<>>, "vehicle")}

NextRegister ==
    \/ \E identityData \in RegisterBodies : RegisterRequest(1, identityData)
    \/ \E a \in Agents, rByz \in RandomDraws, rConf, rSec \in MidDraws :
          EvaluateIdentity(1, a, rByz, rConf, rSec)
    \/ \E a \in Agents, newStatus \in Statuses : UpdateStatus(a, newStatus)
    \/ \E i \in 1..Len(AgentOrder) : SimulateByzantineAttack(i)
    \/ \E t \in CallDeadlines : Tick(t)

SpecRegister == Init /\ [][NextRegister]_vars

\* Attack simulations and their reset timers on their own.  The event loop
\* runs a timer callback once its delay has passed, and time always passes:
\* both steps are weakly fair.
NextRevert ==
    \/ \E i \in 1..Len(AgentOrder) : SimulateByzantineAttack(i)
    \/ ResetByzantine
    \/ TimerDue
    \/ Tick(now + ClockStep)

SpecRevert ==
    Init /\ [][NextRevert]_vars /\ WF_vars(ResetByzantine) /\ WF_vars(TimerDue)

\* The service after n rounds run one after another, each by all three agents
\* and 50 ms long, the last one ending at time 0.
PastCall(i, n) ==
    [IdleCall EXCEPT !.identity = Identity(<<"VEH-1">>, "vehicle"),
                     !.coordinationStart = (i - n - 1) * MinLatency,
                     !.coordinationId = (i - n - 1) * MinLatency,
                     !.dispatched = AgentOrder]

PastSession(i, n) ==
    BuildSession(PastCall(i, n),
                 [k \in 1..Len(AgentOrder) |-> generateResponse(AgentOrder[k], 500, 500)],
                 (i - n) * MinLatency, i)

PastHistory(n) ==
    SliceLast([i \in 1..n |-> PastSession(i, n)], HistoryCapacity)

PastRounds == {0, HistoryCapacity - 1}

InitHistory ==
    /\ \E n \in PastRounds :
          /\ coordinationHistory = PastHistory(n)
          /\ sessionsCreated = n
          /\ decisionsParticipated = [a \in Agents |-> n]
    /\ status = [a \in Agents |-> "online"]
    /\ isByzantine = [a \in Agents |-> FALSE]
    /\ calls = [c \in Calls |-> IdleCall]
    /\ InitEnvironment
    /\ InitTwins
    /\ InitPureIdle
    /\ InitEngine
    /\ InitNoTwin

\* Concurrent callers of the coordinator.
NextHistory ==
    \/ \E c \in Calls : CoordinateIdentityDecision(c, Identity(<<"VEH-1">>, "vehicle"))
    \/ \E c \in Calls, a \in Agents, rByz \in RandomDraws, rConf, rSec \in MidDraws :
          EvaluateIdentity(c, a, rByz, rConf, rSec)
    \/ \E t \in Deadlines : Tick(t)

SpecHistory == InitHistory /\ [][NextHistory]_vars

\* The service after n requests to the coordinate-and-explain handler, run
\* one after another like the rounds of PastHistory.
PastExplanations(n) ==
    SliceLast([i \in 1..n |-> explainCoordination(PastSession(i, n), i)],
              ExplanationCapacity)

PastExplained == {0, ExplanationCapacity - 1}

InitExplain ==
    /\ \E n \in PastExplained :
          /\ coordinationHistory = PastHistory(n)
          /\ sessionsCreated = n
          /\ decisionsParticipated = [a \in Agents |-> n]
          /\ decisionHistory = PastExplanations(n)
          /\ explanationsCreated = n
          /\ explainOut = IF n = 0 THEN Undefined
                          ELSE explainCoordination(PastSession(n, n), n)
    /\ status = [a \in Agents |-> "online"]
    /\ isByzantine = [a \in Agents |-> FALSE]
    /\ calls = [c \in Calls |-> IdleCall]
    /\ InitEnvironment
    /\ InitTwins
    /\ InitPureIdle
    /\ InitNoTwin

\* Requests to the coordinate-and-explain handler, one after another.
NextExplain ==
    \/ \E c \in Calls, identityData \in DispatchIdentities :
          /\ \A d \in Calls : calls[d].pc # "awaiting"
          /\ CoordinateAndExplain(c, identityData)
    \/ \E c \in Calls, a \in Agents, rByz \in RandomDraws, rConf, rSec \in MidDraws :
          EvaluateIdentity(c, a, rByz, rConf, rSec)
    \/ \E t \in Deadlines : Tick(t)

SpecExplain == InitExplain /\ [][NextExplain]_vars

(***************************************************************************)
(* The accessors of the two histories: getCoordinationHistory (lines       *)
(* 386-390), getDecisionHistory (624-626) and exportMLDataset (596-616).   *)
(***************************************************************************)
\* Array.prototype.slice(start) : a negative start counts from the end, and
\* -0 is 0.
Slice(s, start) ==
    LET from == IF start < 0 THEN Max(Len(s) + start, 0) ELSE Min(start, Len(s))
    IN SubSeq(s, from + 1, Len(s))

Reverse(s) == [i \in 1..Len(s) |-> s[Len(s) + 1 - i]]

getCoordinationHistory(history, limit) == Reverse(Slice(history, 0 - limit))

getDecisionHistory(history, limit) == Reverse(Slice(history, 0 - limit))

DatasetRow(explanation) ==
    [coordinationId |-> explanation.coordinationId,
     seq |-> explanation.seq,
     features |-> explanation.mlFeatures.features,
     target |-> explanation.mlFeatures.target,
     explanation |-> explanation.summary,
     confidence |-> explanation.confidenceBreakdown.overall,
     anomaly_score |-> explanation.anomalyScore]

exportMLDataset(history, limit) ==
    LET kept == Slice(history, 0 - limit)
    IN [i \in 1..Len(kept) |-> DatasetRow(kept[i])]

\* A call of an accessor between two turns of the rounds: its answer is kept
\* in httpOut.
GetCoordinationHistory(limit) ==
    /\ httpOut' = [accessor |-> "getCoordinationHistory", limit |-> limit,
                   entries |-> getCoordinationHistory(coordinationHistory, limit)]
    /\ UNCHANGED <<rosterVars, coordVars, now, timerVars, twinVars, pureVars,
                   decisionHistory, explanationsCreated, explainOut, tickVars>>

GetDecisionHistory(limit) ==
    /\ httpOut' = [accessor |-> "getDecisionHistory", limit |-> limit,
                   entries |-> getDecisionHistory(decisionHistory, limit)]
    /\ UNCHANGED <<rosterVars, coordVars, now, timerVars, twinVars, pureVars,
                   decisionHistory, explanationsCreated, explainOut, tickVars>>

ExportMLDataset(limit) ==
    /\ httpOut' = [accessor |-> "exportMLDataset", limit |-> limit,
                   entries |-> exportMLDataset(decisionHistory, limit)]
    /\ UNCHANGED <<rosterVars, coordVars, now, timerVars, twinVars, pureVars,
                   decisionHistory, explanationsCreated, explainOut, tickVars>>

\* The limits the callers pass and the limits around them.
AccessLimits == {0, 1, 2, 10, 20, ExplanationCapacity}

NextAccess ==
    \/ \E c \in Calls :
          /\ \A d \in Calls : calls[d].pc # "awaiting"
          /\ CoordinateAndExplain(c, Identity(<<"VEH-1">>, "vehicle"))
    \/ \E c \in Calls, a \in Agents, rByz \in RandomDraws, rConf, rSec \in MidDraws :
          EvaluateIdentity(c, a, rByz, rConf, rSec)
    \/ \E t \in Deadlines : Tick(t)
    \/ \E limit \in AccessLimits : GetCoordinationHistory(limit)
    \/ \E limit \in AccessLimits : GetDecisionHistory(limit)
    \/ \E limit \in AccessLimits : ExportMLDataset(limit)

SpecAccess == InitExplain /\ [][NextAccess]_vars

(***************************************************************************)
(* A digital twin on its own: constructed, then ticking.                   *)
(***************************************************************************)
VehicleFields == {"engineTemp", "oilPressure", "batteryVoltage", "diagnosticCodes"}

PetFields == {"heartRate", "bodyTemp", "activityLevel", "batteryLevel"}

IoTFields == {"cpuUsage", "memoryUsage", "temperature", "batteryLevel"}

\* Draws for a set of fields: all at the low end, all at the high end, and
\* each field alone at the high end.
DrawVectors(fields) ==
    {[f \in fields |-> IF f \in high THEN 999 ELSE 0] :
        high \in {{}, fields} \cup {{f} : f \in fields}}

\* new Date().getHours() at night and by day
Hours == {3, 12}

\* Math.random() behind simulateStatus: online, warning, offline
StatusDraws == {0, 700, 999}

TickDraws(variant) ==
    CASE variant = "vehicle" -> DrawVectors(VehicleFields)
      [] variant = "pet" ->
             {d @@ [hour |-> h] : d \in DrawVectors(PetFields), h \in Hours}
      [] OTHER ->
             {d @@ [status |-> r] : d \in DrawVectors(IoTFields), r \in StatusDraws}

SubjectOf(variant) ==
    CASE variant = "vehicle" -> GoodVin
      [] variant = "pet" -> "PET-1"
      [] OTHER -> "DEV-1"

\* Readings a twin can hold after some ticks: deductions at work, and none.
PastReadings(variant) ==
    CASE variant = "vehicle" ->
             {[engineTemp |-> 101000, oilPressure |-> 24000,
               batteryVoltage |-> 11900, diagnosticCodes |-> 1],
              [engineTemp |-> 95000, oilPressure |-> 40000,
               batteryVoltage |-> 12500, diagnosticCodes |-> 0]}
      [] variant = "pet" ->
             {[heartRate |-> 156000, bodyTemp |-> 39800,
               activityLevel |-> 80000, batteryLevel |-> 19000],
              [heartRate |-> 100000, bodyTemp |-> 38500,
               activityLevel |-> 50000, batteryLevel |-> 90000]}
      [] OTHER ->
             {[status |-> "offline", cpuUsage |-> 90000, memoryUsage |-> 85000,
               temperature |-> 65000, batteryLevel |-> 10000],
              [status |-> "warning", cpuUsage |-> 30000, memoryUsage |-> 50000,
               temperature |-> 40000, batteryLevel |-> 90000]}

\* The twin after n ticks that all sampled the same reading.
PastTwin(variant, reading, n) ==
    [ConstructTwin(variant, SubjectOf(variant), CHOOSE d \in TickDraws(variant) : TRUE)
        EXCEPT !.readings = [i \in 1..n |-> [seq |-> i, data |-> reading]],
               !.currentState = reading,
               !.healthScore = updateHealthScore(variant, reading),
               !.alertCount =
                   IF variant = "vehicle" /\ updateHealthScore(variant, reading) < 80
                   THEN 1 ELSE 0,
               !.updates = n]

InitTick ==
    /\ InitRoster
    /\ InitCoordinator
    /\ InitEnvironment
    /\ InitTwins
    /\ InitPureIdle
    /\ InitEngine
    /\ \E variant \in Variants :
          /\ \/ \E d \in TickDraws(variant) :
                   twins = [v \in {variant} |->
                               ConstructTwin(variant, SubjectOf(variant), d)]
             \/ \E reading \in PastReadings(variant) :
                   twins = [v \in {variant} |->
                               PastTwin(variant, reading, WindowCapacity(variant) - 1)]
          /\ ticks = [v \in {variant} |-> 0]

\* The callback of an interval that clearInterval did not stop.
TwinTickAfterClear(v, d) ==
    /\ v \in DOMAIN twins
    /\ ticks[v] < MaxTicks
    /\ twins' = [twins EXCEPT ![v] = updateData(twins[v], d)]
    /\ ticks' = [ticks EXCEPT ![v] = ticks[v] + 1]
    /\ UNCHANGED <<rosterVars, coordVars, now, timerVars, twinVars, pureVars,
                   engineVars>>

\* The setInterval callback of a twin runs (lines 773-775, 1011-1013,
\* 1177-1179).
TwinTick(v, d) ==
    /\ v \in DOMAIN twins
    /\ twins[v].timerActive
    /\ ticks[v] < MaxTicks
    /\ twins' = [twins EXCEPT ![v] = updateData(twins[v], d)]
    /\ ticks' = [ticks EXCEPT ![v] = ticks[v] + 1]
    /\ UNCHANGED <<rosterVars, coordVars, now, timerVars, twinVars, pureVars,
                   engineVars>>

NextTick == \E v \in Variants : \E d \in TickDraws(v) : TwinTick(v, d)

SpecTick == InitTick /\ [][NextTick]_vars

(***************************************************************************)
(* A twin that ticks and is torn down.                                     *)
(***************************************************************************)
\* destroy() (lines 972-976, 1141-1145, 1317-1321): clearInterval on the
\* handle the constructor stored.  A second destroy() clears a handle that
\* is no longer armed and changes nothing.
Destroy(v) ==
    /\ v \in DOMAIN twins
    /\ twins[v].timerActive
    /\ twins' = [twins EXCEPT ![v].timerActive = FALSE]
    /\ UNCHANGED <<rosterVars, coordVars, now, timerVars, twinVars, pureVars,
                   engineVars, ticks>>

NextTeardown ==
    \/ \E v \in Variants : \E d \in TickDraws(v) : TwinTick(v, d)
    \/ \E v \in Variants : Destroy(v)

SpecTeardown == InitTick /\ [][NextTeardown]_vars

(***************************************************************************)
(* Twins ticking while the coordinator runs rounds and attack simulations. *)
(***************************************************************************)
\* Draws that walk every field down, and every field up.
SharedDraws(variant) ==
    {d \in TickDraws(variant) :
        /\ \/ \A f \in DOMAIN d \ {"hour", "status"} : d[f] = 0
           \/ \A f \in DOMAIN d \ {"hour", "status"} : d[f] = 999
        /\ "hour" \in DOMAIN d => d.hour = 12
        /\ "status" \in DOMAIN d => d.status = 999}

InitShared ==
    /\ InitRoster
    /\ InitCoordinator
    /\ InitEnvironment
    /\ InitTwins
    /\ InitPureIdle
    /\ InitEngine
    /\ \E variant \in Variants :
          /\ twins = [v \in {variant} |->
                         ConstructTwin(variant, SubjectOf(variant),
                                       CHOOSE d \in SharedDraws(variant) :
                                           \A f \in DOMAIN d \ {"hour", "status"} :
                                               d[f] = 0)]
          /\ ticks = [v \in {variant} |-> 0]

\* A tick that counts itself in the roster's participation counters.
TwinTickCountsParticipation(v, d) ==
    /\ v \in DOMAIN twins
    /\ twins[v].timerActive
    /\ ticks[v] < MaxTicks
    /\ twins' = [twins EXCEPT ![v] = updateData(twins[v], d)]
    /\ ticks' = [ticks EXCEPT ![v] = ticks[v] + 1]
    /\ decisionsParticipated' =
           [a \in Agents |-> decisionsParticipated[a] + 1]
    /\ UNCHANGED <<status, isByzantine, coordVars, now, timerVars, twinVars,
                   pureVars, engineVars>>

\* The interval callback as the twin-and-coordinator service runs it.
SharedTick(v, d) == TwinTick(v, d)

NextShared ==
    \/ \E v \in Variants : \E d \in SharedDraws(v) : SharedTick(v, d)
    \/ CoordinateIdentityDecision(1, Identity(<<"VEH-1">>, "vehicle"))
    \/ \E a \in Agents, rByz \in RandomDraws, rConf, rSec \in MidDraws :
          EvaluateIdentity(1, a, rByz, rConf, rSec)
    \/ \E i \in 1..Len(AgentOrder) : SimulateByzantineAttack(i)
    \/ \E t \in CallDeadlines : Tick(t)

SpecShared == InitShared /\ [][NextShared]_vars

(***************************************************************************)
(* The health score recompute on its own: two twins of one variant that    *)
(* hold the same current reading and differ in everything else, each at    *)
(* the point of a tick where the new reading is stored and                 *)
(* updateHealthScore is about to run (lines 806, 1039, 1206).              *)
(***************************************************************************)
\* Scores a twin can hold from its previous reading.
PreviousScores == {100, 50}

\* Values of a vehicle's alertCount; the other variants never change theirs.
AlertCounts(variant) == IF variant = "vehicle" THEN {0, 1} ELSE {0}

\* Lengths of the reading window: one entry, and a full window.
WindowLengths(variant) == {1, WindowCapacity(variant)}

\* The twin in a tick, after the reading is stored and before the recompute.
MidTick(variant, reading, n, previousScore, alerts) ==
    [PastTwin(variant, reading, n) EXCEPT !.healthScore = previousScore,
                                          !.alertCount = alerts]

MidTicks(variant, reading) ==
    {MidTick(variant, reading, n, previousScore, alerts) :
        n \in WindowLengths(variant), previousScore \in PreviousScores,
        alerts \in AlertCounts(variant)}

InitHealth ==
    /\ InitRoster
    /\ InitCoordinator
    /\ InitEnvironment
    /\ InitTwins
    /\ InitPureIdle
    /\ InitEngine
    /\ \E variant \in Variants : \E reading \in PastReadings(variant) :
          \E first \in MidTicks(variant, reading) :
             \E second \in MidTicks(variant, reading) :
                twins = <<first, second>>
    /\ ticks = <<0, 0>>

\* this.updateHealthScore() at the end of the tick of twin h.
RecomputeHealth(h) ==
    /\ h \in DOMAIN twins
    /\ ticks[h] = 0
    /\ twins' = [twins EXCEPT ![h] = UpdateHealthScore(twins[h])]
    /\ ticks' = [ticks EXCEPT ![h] = 1]
    /\ UNCHANGED <<rosterVars, coordVars, now, timerVars, twinVars, pureVars,
                   engineVars>>

NextHealth == \E h \in {1, 2} : RecomputeHealth(h)

SpecHealth == InitHealth /\ [][NextHealth]_vars

(***************************************************************************)
(* The ledger contract's ValidateIdentityData (app.js lines 390-436)       *)
(* applied on its own to a record.  A string is its text and its length,   *)
(* a missing property is undefined.                                        *)
(***************************************************************************)
JsText(val, length) == [jsType |-> "string", val |-> val, length |-> length]

JsNumber(val) == [jsType |-> "number", val |-> val]

\* !v is false
Truthy(v) ==
    CASE v.jsType = "undefined" -> FALSE
      [] v.jsType = "string" -> v.length > 0
      [] v.jsType = "number" -> v.val # 0
      [] OTHER -> TRUE

\* v < n and v > n: false when v is undefined (NaN)
LessThan(v, n) == v.jsType = "number" /\ v.val < n

GreaterThan(v, n) == v.jsType = "number" /\ v.val > n

\* v.length !== n
LengthIsNot(v, n) == ~(v.jsType = "string" /\ v.length = n)

\* v.length < n: false when v has no length
LengthLess(v, n) == v.jsType = "string" /\ v.length < n

ValidationResult(valid, explanation) ==
    [jsType |-> "object", valid |-> valid, explanation |-> explanation]

\* ValidateIdentityData accepting any VIN of at least 17 characters.
ValidateIdentityDataLongVin(identityData, currentYear) ==
    IF identityData.jsType = "undefined"
    THEN ValidationResult(FALSE, "TypeError")
    ELSE IF ~Truthy(identityData.id) \/ ~Truthy(identityData.type)
              \/ ~Truthy(identityData.data)
    THEN ValidationResult(FALSE, "Missing required fields: id, type, or data")
    ELSE IF identityData.type.val = "vehicle"
    THEN IF ~Truthy(identityData.data.vin) \/ LengthLess(identityData.data.vin, 17)
         THEN ValidationResult(FALSE, "Invalid VIN format")
         ELSE IF LessThan(identityData.data.mileage, 0)
         THEN ValidationResult(FALSE, "Mileage cannot be negative")
         ELSE IF \/ LessThan(identityData.data.year, 1900)
                 \/ GreaterThan(identityData.data.year, currentYear + 1)
         THEN ValidationResult(FALSE, "Invalid year")
         ELSE ValidationResult(TRUE, "All validations passed successfully")
    ELSE IF identityData.type.val = "pet"
    THEN IF \/ ~Truthy(identityData.data.microchipId)
            \/ LengthLess(identityData.data.microchipId, 15)
         THEN ValidationResult(FALSE, "Invalid microchip ID")
         ELSE IF \/ LessThan(identityData.data.age, 0)
                 \/ GreaterThan(identityData.data.age, 30)
         THEN ValidationResult(FALSE, "Invalid age")
         ELSE ValidationResult(TRUE, "All validations passed successfully")
    ELSE IF identityData.type.val = "iot"
    THEN IF \/ ~Truthy(identityData.data.serialNumber)
            \/ LengthLess(identityData.data.serialNumber, 3)
         THEN ValidationResult(FALSE, "Invalid serial number")
         ELSE ValidationResult(TRUE, "All validations passed successfully")
    ELSE ValidationResult(FALSE, "Unsupported identity type")

\* ValidateIdentityData(ctx, identityData) in the year currentYear; reading
\* a property of an undefined argument throws inside the try block and the
\* catch block returns the error.
ValidateIdentityData(identityData, currentYear) ==
    IF identityData.jsType = "undefined"
    THEN ValidationResult(FALSE, "TypeError")
    ELSE IF ~Truthy(identityData.id) \/ ~Truthy(identityData.type)
              \/ ~Truthy(identityData.data)
    THEN ValidationResult(FALSE, "Missing required fields: id, type, or data")
    ELSE IF identityData.type.val = "vehicle"
    THEN IF ~Truthy(identityData.data.vin) \/ LengthIsNot(identityData.data.vin, 17)
         THEN ValidationResult(FALSE, "Invalid VIN format")
         ELSE IF LessThan(identityData.data.mileage, 0)
         THEN ValidationResult(FALSE, "Mileage cannot be negative")
         ELSE IF \/ LessThan(identityData.data.year, 1900)
                 \/ GreaterThan(identityData.data.year, currentYear + 1)
         THEN ValidationResult(FALSE, "Invalid year")
         ELSE ValidationResult(TRUE, "All validations passed successfully")
    ELSE IF identityData.type.val = "pet"
    THEN IF \/ ~Truthy(identityData.data.microchipId)
            \/ LengthLess(identityData.data.microchipId, 15)
         THEN ValidationResult(FALSE, "Invalid microchip ID")
         ELSE IF \/ LessThan(identityData.data.age, 0)
                 \/ GreaterThan(identityData.data.age, 30)
         THEN ValidationResult(FALSE, "Invalid age")
         ELSE ValidationResult(TRUE, "All validations passed successfully")
    ELSE IF identityData.type.val = "iot"
    THEN IF \/ ~Truthy(identityData.data.serialNumber)
            \/ LengthLess(identityData.data.serialNumber, 3)
         THEN ValidationResult(FALSE, "Invalid serial number")
         ELSE ValidationResult(TRUE, "All validations passed successfully")
    ELSE ValidationResult(FALSE, "Unsupported identity type")

\* new Date().getFullYear() at the call
CurrentYears == {2025, 2026}

\* Values of the properties of a record: missing, and on both sides of
\* every comparison of the method.
IdSamples == {Undefined, JsText("", 0), JsText("VEH-001", 7)}

TypeSamples ==
    {Undefined, JsText("vehicle", 7), JsText("pet", 3), JsText("iot", 3),
     JsText("robot", 5)}

VinSamples ==
    {Undefined, JsText("", 0), JsText("vin16", 16), JsText("vin17", 17),
     JsText("vin18", 18)}

MileageSamples == {Undefined, JsNumber(0 - 1), JsNumber(0), JsNumber(25000)}

YearSamples ==
    {Undefined, JsNumber(1899), JsNumber(1900), JsNumber(2026), JsNumber(2027),
     JsNumber(2028)}

MicrochipSamples == {Undefined, JsText("chip14", 14), JsText("chip15", 15)}

AgeSamples ==
    {Undefined, JsNumber(0 - 1), JsNumber(0), JsNumber(30), JsNumber(31)}

SerialSamples == {Undefined, JsText("sn2", 2), JsText("sn3", 3)}

EmptyData ==
    [jsType |-> "object", vin |-> Undefined, mileage |-> Undefined,
     year |-> Undefined, microchipId |-> Undefined, age |-> Undefined,
     serialNumber |-> Undefined, make |-> Undefined, model |-> Undefined,
     breed |-> Undefined, owner |-> Undefined, deviceType |-> Undefined,
     manufacturer |-> Undefined]

\* The data objects of records of a type: the properties the method reads
\* for that type vary, the others are missing.
DataSamples(type) ==
    {Undefined}
      \cup (IF type = Undefined THEN {EmptyData}
            ELSE IF type.val = "vehicle"
            THEN {[EmptyData EXCEPT !.vin = vin, !.mileage = mileage, !.year = year] :
                     vin \in VinSamples, mileage \in MileageSamples,
                     year \in YearSamples}
            ELSE IF type.val = "pet"
            THEN {[EmptyData EXCEPT !.microchipId = microchipId, !.age = age] :
                     microchipId \in MicrochipSamples, age \in AgeSamples}
            ELSE IF type.val = "iot"
            THEN {[EmptyData EXCEPT !.serialNumber = serialNumber] :
                     serialNumber \in SerialSamples}
            ELSE {EmptyData, [EmptyData EXCEPT !.vin = JsText("vin17", 17)]})

InitLedger ==
    /\ InitRoster
    /\ InitCoordinator
    /\ InitEnvironment
    /\ InitTwins
    /\ evalInput = <<>>
    /\ consensusOut = Undefined
    /\ faultOut = Undefined
    /\ timeInput = 0
    /\ \E currentYear \in CurrentYears :
          \/ ledgerInput = [identityData |-> Undefined, currentYear |-> currentYear]
          \/ \E id \in IdSamples, type \in TypeSamples :
                \E data \in DataSamples(type) :
                   ledgerInput =
                       [identityData |-> [jsType |-> "object", id |-> id,
                                          type |-> type, data |-> data],
                        currentYear |-> currentYear]
    /\ validationOut = Undefined
    /\ InitContractIdle
    /\ InitEngine
    /\ InitNoTwin

ValidateRecord ==
    /\ validationOut = Undefined
    /\ validationOut' =
           ValidateIdentityData(ledgerInput.identityData, ledgerInput.currentYear)
    /\ UNCHANGED <<rosterVars, coordVars, now, timerVars, twinVars,
                   evalInput, consensusOut, faultOut, timeInput, ledgerInput,
                   contractVars, engineVars, tickVars>>

NextLedger == ValidateRecord

SpecLedger == InitLedger /\ [][NextLedger]_vars

(***************************************************************************)
(* The ledger contract's transactions (app.js lines 294-574) over the      *)
(* world state.  worldState maps a key to the JSON object stored under it; *)
(* a property an object does not have is undefined.  A transaction reads   *)
(* the state committed before it and its writes take effect when it        *)
(* returns; a transaction that throws writes nothing.  A string whose      *)
(* characters matter is the tuple of its characters.                       *)
(***************************************************************************)
JsChars(chars) == JsText(chars, Len(chars))

\* the key under which InitLedger and UpdateContractStats keep the statistics
ContractInfoKey == "CONTRACT_INFO"

LedgerObject ==
    [jsType |-> "object", id |-> Undefined, type |-> Undefined,
     data |-> Undefined, status |-> Undefined, transactionId |-> Undefined,
     contractVersion |-> Undefined, totalIdentities |-> Undefined,
     lastActivity |-> Undefined]

\* ctx.stub.getState(key) parsed: ReadIdentity (lines 534-538) answers null,
\* here undefined, when nothing is stored under the key.
ReadIdentity(state, key) ==
    IF key \in DOMAIN state THEN state[key] ELSE Undefined

\* Object.keys(data).length
KeyCount(data) ==
    Cardinality({f \in DOMAIN data \ {"jsType"} : data[f] # Undefined})

SupportedTypes == {"vehicle", "pet", "iot"}

\* The three agents' weights (lines 440-444).
DeviceAgentWeight == 1

CoordinatorAgentWeight == 2

RegionalCoordinatorWeight == 2

\* Math.floor(totalVotes * 2 / 3) without the + 1.
RequiredVotesTwoThirds(totalVotes) == (totalVotes * 2) \div 3

\* requiredVotes (line 473)
RequiredVotes(totalVotes) == ((totalVotes * 2) \div 3) + 1

\* SimulateMultiAgentConsensus(ctx, identityData), lines 439-487; reading
\* the keys of a missing data object throws.
SimulateMultiAgentConsensus(state, identityData) ==
    IF identityData.jsType = "undefined" \/ identityData.data.jsType = "undefined"
    THEN [kind |-> "TypeError", consensusReached |-> FALSE, votes |-> 0,
          totalVotes |-> 0, requiredVotes |-> 0, agentDecisions |-> <<>>]
    ELSE LET device == KeyCount(identityData.data) >= 3
             coordinator == /\ identityData.type.jsType = "string"
                            /\ identityData.type.val \in SupportedTypes
             regional == ~Truthy(ReadIdentity(state, identityData.id.val))
             totalVotes == DeviceAgentWeight + CoordinatorAgentWeight
                              + RegionalCoordinatorWeight
             approvedVotes == (IF device THEN DeviceAgentWeight ELSE 0)
                                + (IF coordinator THEN CoordinatorAgentWeight ELSE 0)
                                + (IF regional THEN RegionalCoordinatorWeight ELSE 0)
         IN [kind |-> "consensus",
             consensusReached |-> approvedVotes >= RequiredVotes(totalVotes),
             votes |-> approvedVotes,
             totalVotes |-> totalVotes,
             requiredVotes |-> RequiredVotes(totalVotes),
             agentDecisions |-> <<device, coordinator, regional>>]

\* getRequiredFieldsForType (lines 510-517)
getRequiredFieldsForType(type) ==
    CASE type = "vehicle" -> {"vin", "make", "model", "year"}
      [] type = "pet" -> {"microchipId", "breed", "owner"}
      [] type = "iot" -> {"deviceType", "manufacturer", "serialNumber"}
      [] OTHER -> {"id"}

\* the characters of /^[A-HJ-NPR-Z0-9]{17}$/
VinAlphabet ==
    {"A", "B", "C", "D", "E", "F", "G", "H", "J", "K", "L", "M", "N", "P",
     "R", "S", "T", "U", "V", "W", "X", "Y", "Z",
     "0", "1", "2", "3", "4", "5", "6", "7", "8", "9"}

VinPatternTest(v) ==
    /\ v.jsType = "string"
    /\ v.length = 17
    /\ \A i \in 1..Len(v.val) : v.val[i] \in VinAlphabet

StartsWith956(v) ==
    /\ v.jsType = "string"
    /\ v.length >= 3
    /\ SubSeq(v.val, 1, 3) = <<"9", "5", "6">>

\* CheckCrossDomainConsistency (lines 519-532): the reason, "" when
\* consistent.
CheckCrossDomainConsistency(identityData) ==
    IF identityData.type.val = "vehicle" /\ ~VinPatternTest(identityData.data.vin)
    THEN "VIN format violates standards"
    ELSE IF /\ identityData.type.val = "pet"
            /\ \/ LengthIsNot(identityData.data.microchipId, 15)
               \/ ~StartsWith956(identityData.data.microchipId)
    THEN "Microchip ID invalid"
    ELSE ""

\* ApplyAuthenticationRules (lines 490-508): the explanation of the failure,
\* "" when authenticated.
ApplyAuthenticationRules(state, identityData) ==
    IF Truthy(ReadIdentity(state, identityData.id.val))
    THEN "Duplicate identity"
    ELSE IF \E field \in getRequiredFieldsForType(identityData.type.val) :
               field \notin DOMAIN identityData.data
                  \/ ~Truthy(identityData.data[field])
    THEN "Missing required field"
    ELSE CheckCrossDomainConsistency(identityData)

\* UpdateContractStats(ctx, 'registration'), lines 555-565: the writes of
\* the transaction with the one it adds.
UpdateContractStats(state, written, txId) ==
    LET stats == ReadIdentity(state, ContractInfoKey)
    IN IF Truthy(stats)
       THEN MapSet(written, ContractInfoKey,
                   [stats EXCEPT
                      !.totalIdentities =
                          JsNumber((IF Truthy(stats.totalIdentities)
                                    THEN stats.totalIdentities.val ELSE 0) + 1),
                      !.lastActivity = JsNumber(txId)])
       ELSE written

\* The object RegisterIdentity stores (lines 342-353).
StoredIdentity(identityData, txId) ==
    [LedgerObject EXCEPT !.id = identityData.id, !.type = identityData.type,
                         !.data = identityData.data,
                         !.status = JsText("active", 6),
                         !.transactionId = JsNumber(txId)]

\* What a transaction leaves: the state and its answer.
TxFailure(state, stage, identityData) ==
    [state |-> state,
     out |-> [kind |-> "error", event |-> "RegistrationError", stage |-> stage,
              request |-> identityData]]

TxSuccess(state, identityData) ==
    [state |-> state,
     out |-> [kind |-> "success", event |-> "IdentityRegistered", stage |-> "",
              request |-> identityData]]

\* RegisterIdentity storing the record before it runs the three stages.
RegisterIdentityStoreFirst(state, identityData, currentYear, txId) ==
    IF identityData.jsType = "malformed"
    THEN TxFailure(state, "SyntaxError", identityData)
    ELSE IF identityData.jsType = "undefined"
    THEN TxFailure(state, "TypeError", identityData)
    ELSE LET stored == IF Truthy(identityData.id)
                       THEN MapSet(state, identityData.id.val,
                                   StoredIdentity(identityData, txId))
                       ELSE state
         IN IF ~ValidateIdentityData(identityData, currentYear).valid
            THEN TxFailure(stored, "Validation failed", identityData)
            ELSE IF ~SimulateMultiAgentConsensus(state, identityData).consensusReached
            THEN TxFailure(stored, "Consensus failed", identityData)
            ELSE IF ApplyAuthenticationRules(state, identityData) # ""
            THEN TxFailure(stored, "Authentication failed", identityData)
            ELSE TxSuccess(UpdateContractStats(state, stored, txId), identityData)

\* RegisterIdentity(ctx, identityDataString) as transaction txId on the
\* state (lines 318-387).  The string is given parsed, undefined standing
\* for the string 'null'.
RegisterIdentity(state, identityData, currentYear, txId) ==
    IF identityData.jsType = "malformed"
    THEN TxFailure(state, "SyntaxError", identityData)
    ELSE IF identityData.jsType = "undefined"
    THEN TxFailure(state, "TypeError", identityData)
    ELSE IF ~ValidateIdentityData(identityData, currentYear).valid
    THEN TxFailure(state, "Validation failed", identityData)
    ELSE IF ~SimulateMultiAgentConsensus(state, identityData).consensusReached
    THEN TxFailure(state, "Consensus failed", identityData)
    ELSE IF ApplyAuthenticationRules(state, identityData) # ""
    THEN TxFailure(state, "Authentication failed", identityData)
    ELSE TxSuccess(UpdateContractStats(
                       state,
                       MapSet(state, identityData.id.val,
                              StoredIdentity(identityData, txId)),
                       txId),
                   identityData)

\* The object InitLedger stores (lines 299-304).
InitData ==
    [LedgerObject EXCEPT !.contractVersion = JsText("1.0.0", 5),
                         !.totalIdentities = JsNumber(0)]

\* GetAllIdentities (lines 540-553): the stored objects with an id and a type.
IdentityKeys(state) ==
    {key \in DOMAIN state : Truthy(state[key].id) /\ Truthy(state[key].type)}

\* GetContractInfo (lines 567-573): totalIdentities as the contract reports it.
ReportedTotal(state) ==
    IF Truthy(ReadIdentity(state, ContractInfoKey))
    THEN ReadIdentity(state, ContractInfoKey).totalIdentities
    ELSE JsNumber(0)

\* Records sent to the contract: the records of the contract's tests and
\* records failing each stage.
GoodVinChars ==
    <<"1", "H", "G", "B", "H", "4", "1", "J", "X", "M", "N", "1", "0", "9",
      "1", "8", "6">>

GoodChipChars ==
    <<"9", "5", "6", "0", "0", "0", "0", "1", "4", "5", "6", "9", "8", "7", "1">>

TypeText(type) ==
    JsText(type, CASE type = "vehicle" -> 7 [] type = "robot" -> 5 [] OTHER -> 3)

\* ids of the samples have seven characters
Record(id, type, data) ==
    [jsType |-> "object", id |-> JsText(id, 7), type |-> TypeText(type),
     data |-> data]

VehicleData ==
    [EmptyData EXCEPT !.vin = JsChars(GoodVinChars), !.make = JsText("Honda", 5),
                      !.model = JsText("Civic", 5), !.year = JsNumber(2021),
                      !.mileage = JsNumber(25000)]

PetData ==
    [EmptyData EXCEPT !.microchipId = JsChars(GoodChipChars),
                      !.breed = JsText("Beagle", 6), !.owner = JsText("Ana", 3),
                      !.age = JsNumber(3)]

IoTData ==
    [EmptyData EXCEPT !.deviceType = JsText("sensor", 6),
                      !.manufacturer = JsText("Bosch", 5),
                      !.serialNumber = JsText("BSH-TEMP-001", 12)]

ContractRecords ==
    {Record("VEH-001", "vehicle", VehicleData),
     Record("PET-001", "pet", PetData),
     Record("IOT-001", "iot", IoTData),
     \* the same id with other data
     Record("VEH-001", "vehicle", [VehicleData EXCEPT !.mileage = JsNumber(30000)]),
     Record("PET-001", "iot", IoTData),
     \* the statistics key as an id
     [Record("", "iot", IoTData) EXCEPT !.id = JsText(ContractInfoKey, 13)],
     \* failing validation
     Record("VEH-001", "vehicle",
            [VehicleData EXCEPT !.vin = JsChars(SubSeq(GoodVinChars, 1, 16))]),
     Record("VEH-002", "vehicle", [VehicleData EXCEPT !.mileage = JsNumber(0 - 1)]),
     Record("ROB-001", "robot", VehicleData),
     Record("ROB-001", "robot", [EmptyData EXCEPT !.vin = JsChars(GoodVinChars)]),
     Record("VEH-001", "robot", VehicleData),
     Record("VEH-001", "robot", [EmptyData EXCEPT !.vin = JsChars(GoodVinChars)]),
     [Record("VEH-002", "vehicle", VehicleData) EXCEPT !.data = Undefined],
     \* passing validation with fewer than three properties
     Record("IOT-002", "iot", [EmptyData EXCEPT !.serialNumber = JsText("sn3", 3)]),
     Record("IOT-001", "iot", [EmptyData EXCEPT !.serialNumber = JsText("sn3", 3)]),
     \* failing authentication
     Record("VEH-002", "vehicle", [VehicleData EXCEPT !.make = Undefined]),
     Record("VEH-002", "vehicle",
            [VehicleData EXCEPT !.vin = JsChars([GoodVinChars EXCEPT ![17] = "I"])]),
     Record("PET-002", "pet",
            [PetData EXCEPT !.microchipId =
                JsChars([GoodChipChars EXCEPT ![1] = "1"])])}

\* a string JSON.parse rejects
Malformed == [jsType |-> "malformed"]

ContractInputs == ContractRecords \cup {Undefined, Malformed}

InitContract ==
    /\ InitRoster
    /\ InitCoordinator
    /\ InitEnvironment
    /\ InitTwins
    /\ InitPureIdle
    /\ InitEngine
    /\ InitNoTwin

ContractFrame ==
    UNCHANGED <<rosterVars, coordVars, now, timerVars, twinVars, evalInput,
                consensusOut, faultOut, timeInput, ledgerInput, validationOut,
                engineVars, tickVars>>

\* The transaction InitLedger (lines 297-315).
InvokeInitLedger ==
    /\ txCount < MaxTransactions
    /\ txCount' = txCount + 1
    /\ worldState' = MapSet(worldState, ContractInfoKey, InitData)
    /\ txOut' = [kind |-> "init", event |-> "ContractInitialized", stage |-> "",
                 request |-> Undefined]
    /\ ContractFrame

\* The transaction RegisterIdentity (lines 318-387).
InvokeRegisterIdentity(identityData, currentYear) ==
    /\ txCount < MaxTransactions
    /\ txCount' = txCount + 1
    /\ LET tx == RegisterIdentity(worldState, identityData, currentYear, txCount + 1)
       IN /\ worldState' = tx.state
          /\ txOut' = tx.out
    /\ ContractFrame

\* The transaction SimulateMultiAgentConsensus (lines 439-487).
InvokeSimulateConsensus(identityData) ==
    /\ txCount < MaxTransactions
    /\ txCount' = txCount + 1
    /\ txOut' = [kind |-> "consensus", event |-> "", stage |-> "",
                 request |-> identityData,
                 result |-> SimulateMultiAgentConsensus(worldState, identityData)]
    /\ UNCHANGED worldState
    /\ ContractFrame

NextContract ==
    \/ InvokeInitLedger
    \/ \E identityData \in ContractInputs, currentYear \in CurrentYears :
          InvokeRegisterIdentity(identityData, currentYear)
    \/ \E identityData \in ContractInputs \ {Malformed} :
          InvokeSimulateConsensus(identityData)

SpecContract == InitContract /\ [][NextContract]_vars

\* Sequences of RegisterIdentity transactions alone.
NextRegistrations ==
    \E identityData \in ContractInputs, currentYear \in CurrentYears :
       InvokeRegisterIdentity(identityData, currentYear)

SpecRegistrations == InitContract /\ [][NextRegistrations]_vars

(***************************************************************************)
(* Properties.                                                             *)
(***************************************************************************)
FlaggedCount(evaluations) ==
    Cardinality({i \in 1..Len(evaluations) : evaluations[i].isByzantine})

\* C1: calculateConsensus marks consensus achieved exactly when
\* approvals/total >= 2/3: for every list of 1 to 3 evaluations,
\* consensusAchieved holds iff 3 * approvals >= 2 * total (so 2 approvals of 3
\* achieve consensus and 1 of 3 does not).
C1_AchievedIffTwoThirds ==
    (consensusOut # Undefined /\ Len(evalInput) >= 1) =>
        (consensusOut.consensusAchieved
            <=> 3 * consensusOut.approvals >= 2 * consensusOut.totalAgents)

\* C2: the final decision of handleByzantineFaults is the recommendation of
\* calculateConsensus over the non-Byzantine evaluations (the original
\* recommendation when none is Byzantine), and byzantineAgentsDetected counts
\* the Byzantine-flagged evaluations.
C2_FinalDecisionOverHonest ==
    faultOut # Undefined =>
        /\ faultOut.finalDecision =
               calculateConsensus(SelectSeq(evalInput, IsHonest)).recommendedDecision
        /\ faultOut.byzantineFaultHandling.byzantineAgentsDetected =
               FlaggedCount(evalInput)
        /\ FlaggedCount(evalInput) = 0 =>
               faultOut.finalDecision = consensusOut.recommendedDecision

\* A correction flip: a Byzantine evaluation was excluded and the decision
\* changed from the original recommendation.
C2_Witness ==
    /\ faultOut # Undefined
    /\ FlaggedCount(evalInput) > 0
    /\ consensusOut.recommendedDecision = "REJECTED"
    /\ faultOut.finalDecision = "APPROVED"

\* C3: with 3 online agents, none Byzantine, the session returned by
\* coordinateIdentityDecision has consensus ratio 1, consensus achieved, a
\* finalDecision field equal to the string "APPROVED", and 0 Byzantine agents
\* detected.
C3_HonestRoundApproved ==
    \A c \in Calls :
        (/\ calls[c].pc = "returned"
         /\ calls[c].dispatched = AgentOrder
         /\ ~calls[c].result.byzantineDetected) =>
            LET session == calls[c].result
            IN /\ session.consensus.consensusRatio.den # 0
               /\ session.consensus.consensusRatio.num
                      = session.consensus.consensusRatio.den
               /\ session.consensus.consensusAchieved
               /\ StrictEqualsString(session.finalDecision, "APPROVED")
               /\ session.finalDecision.byzantineFaultHandling.byzantineAgentsDetected = 0

\* C4: when every participating agent approves in the round of a twin
\* creation, the creation returns a twin stored in the registry under the
\* subject id, with its periodic updates started.
C4_ApprovedCreationRegistersTwin ==
    \A t \in Creations :
        (/\ creations[t].call # 0
         /\ calls[creations[t].call].pc = "returned"
         /\ calls[creations[t].call].result.participatingAgents > 0
         /\ calls[creations[t].call].result.consensus.approvals
                = calls[creations[t].call].result.participatingAgents) =>
            /\ creations[t].pc = "returned"
            /\ creations[t].subject \in DOMAIN TwinsOf(creations[t].variant)
            /\ TwinsOf(creations[t].variant)[creations[t].subject].timerActive

\* C5: coordinateIdentityDecision never throws to its caller, and when no
\* agent is online it returns a result carrying an error description.
C5_NeverThrowsReportsDispatchFailure ==
    \A c \in Calls :
        /\ calls[c].pc # "threw"
        /\ (calls[c].pc = "returned" /\ calls[c].dispatched = <<>>) =>
               calls[c].result.kind = "failure"

\* A creation whose round ended with a decision other than APPROVED has failed
\* with an error.
C6_RejectedCreationFails ==
    \A t \in Creations :
        (/\ creations[t].call # 0
         /\ calls[creations[t].call].pc = "returned"
         /\ calls[creations[t].call].result.finalDecision.finalDecision # "APPROVED") =>
            /\ creations[t].pc = "threw"
            /\ creations[t].error # ""

\* The step in which a creation fails changes no registry map.
C6_FailureLeavesRegistry ==
    (\E t \in Creations : creations[t].pc # "threw" /\ creations'[t].pc = "threw") =>
        UNCHANGED <<vehicleTwins, petTwins, iotTwins, messageQueue>>

\* C6: when the round of a twin creation does not end APPROVED, the creation
\* fails with an error, and the step in which a creation fails leaves the
\* registry maps (and so the twin timers) and the message queue unchanged.
C6_RejectedCreationRegistersNothing ==
    []C6_RejectedCreationFails /\ [][C6_FailureLeavesRegistry]_vars

\* A pet twin creation refused with every agent offline.
C6_Witness ==
    \E t \in Creations :
        /\ creations[t].pc = "threw"
        /\ creations[t].variant = "pet"
        /\ creations[t].call # 0
        /\ calls[creations[t].call].result.participatingAgents = 0
        /\ creations[t].subject \notin DOMAIN petTwins

\* C7: in every state, whatever the interleaving of concurrent rounds,
\* coordinationHistory holds at most 50 sessions.
C7_HistoryWithinCapacity == Len(coordinationHistory) <= HistoryCapacity

\* A full history after a 51st session was recorded.
C7_Witness ==
    /\ sessionsCreated > HistoryCapacity
    /\ Len(coordinationHistory) = HistoryCapacity

\* The history is the last min(n, 50) of the n sessions built, in the order
\* they were built.
C8_LastSessionsInOrder ==
    /\ Len(coordinationHistory) =
           IF sessionsCreated < HistoryCapacity THEN sessionsCreated
           ELSE HistoryCapacity
    /\ \A i \in 1..Len(coordinationHistory) :
           coordinationHistory[i].seq =
               sessionsCreated - Len(coordinationHistory) + i

\* Recording appends the new session; into a full history it drops the head.
C8_RecordDropsEarliest ==
    coordinationHistory' # coordinationHistory =>
        LET newest == coordinationHistory'[Len(coordinationHistory')]
        IN /\ newest.seq = sessionsCreated + 1
           /\ coordinationHistory' =
                  IF Len(coordinationHistory) < HistoryCapacity
                  THEN Append(coordinationHistory, newest)
                  ELSE Append(Tail(coordinationHistory), newest)

\* C8: eviction is FIFO: after n completed rounds the history is exactly the
\* last min(n, 50) sessions in completion order, each once, and recording a
\* session into a full history drops the earliest one and keeps the order of
\* the others.
C8_FifoEviction == []C8_LastSessionsInOrder /\ [][C8_RecordDropsEarliest]_vars

\* The 51st session recorded: the first one is gone, the second leads.
C8_Witness ==
    /\ sessionsCreated = HistoryCapacity + 1
    /\ coordinationHistory[1].seq = 2
    /\ coordinationHistory[HistoryCapacity].seq = HistoryCapacity + 1

\* C9: no two sessions returned by the coordinator, and no two sessions of
\* coordinationHistory, have the same coordinationId.
C9_UniqueCoordinationIds ==
    /\ \A c, d \in Calls :
           (c # d /\ calls[c].pc = "returned" /\ calls[d].pc = "returned") =>
               calls[c].result.coordinationId # calls[d].result.coordinationId
    /\ \A i, j \in 1..Len(coordinationHistory) :
           i # j => coordinationHistory[i].coordinationId
                       # coordinationHistory[j].coordinationId

\* C10: after simulateByzantineAttack picks an agent, the agent's flag stays
\* true for the 30 seconds that follow the call: while the reset timer of an
\* attack is not yet due, the attacked agent is Byzantine.
C10_FlagHeldForDuration ==
    \A i \in 1..Len(resetTimers) :
        now < resetTimers[i].due => isByzantine[resetTimers[i].agent]

\* An agent is flagged only while a reset timer for it is pending; with no
\* timer pending no agent is flagged.
C11_FlaggedOnlyWhileTimerPending ==
    /\ \A a \in Agents :
           isByzantine[a] => \E i \in 1..Len(resetTimers) : resetTimers[i].agent = a
    /\ resetTimers = <<>> => \A a \in Agents : ~isByzantine[a]

\* C11: the Byzantine flag auto-reverts: a flag set by simulateByzantineAttack
\* is eventually false again, every reset timer eventually fires, an agent is
\* flagged only while a reset timer for it is pending, and once all timers
\* have fired every agent is non-Byzantine.
C11_FlagAutoReverts ==
    /\ []C11_FlaggedOnlyWhileTimerPending
    /\ \A a \in Agents : isByzantine[a] ~> ~isByzantine[a]
    /\ (resetTimers # <<>>) ~> (resetTimers = <<>>)

\* Two attacks, the second while the first timer was pending, both reverted.
C11_Witness ==
    /\ attacksStarted >= 2
    /\ resetTimers = <<>>
    /\ now > AttackDuration
    /\ \A a \in Agents : ~isByzantine[a]

\* A session exists only once every dispatched evaluation has completed, and
\* holds exactly the evaluations of the dispatched agents, in dispatch order.
C12_SessionCoversDispatched ==
    \A c \in Calls :
        /\ calls[c].pc = "awaiting" => calls[c].result = Undefined
        /\ (calls[c].pc = "returned" /\ calls[c].result.kind = "session") =>
               LET session == calls[c].result
               IN /\ DOMAIN calls[c].evals = Dispatched(calls[c])
                  /\ session.participatingAgents = Len(calls[c].dispatched)
                  /\ Len(session.agentEvaluations) = Len(calls[c].dispatched)
                  /\ \A i \in 1..Len(calls[c].dispatched) :
                         /\ session.agentEvaluations[i] # Rejection
                         /\ session.agentEvaluations[i] =
                                calls[c].evals[calls[c].dispatched[i]]
                         /\ session.agentEvaluations[i].agentId = calls[c].dispatched[i]

\* A round one of whose evaluations failed has returned a failure result,
\* which has neither a consensus nor a final decision.
C12_FailedEvaluationFailsRound ==
    \A c \in Calls :
        (\E a \in DOMAIN calls[c].evals : calls[c].evals[a] = Rejection) =>
            /\ calls[c].pc = "returned"
            /\ calls[c].result.kind = "failure"
            /\ "error" \in DOMAIN calls[c].result
            /\ {"consensus", "finalDecision", "agentEvaluations"}
                   \cap DOMAIN calls[c].result = {}

\* The agents dispatched are those online when the call is made.
C12_DispatchesOnlineAgents ==
    \A c \in Calls :
        (calls[c].pc = "idle" /\ calls'[c].pc \in {"awaiting", "returned"}) =>
            calls'[c].dispatched = SelectSeq(AgentOrder, IsOnline)

\* C12: coordinateIdentityDecision is all-or-nothing over the agents online at
\* dispatch: a session is produced only after every dispatched evaluation has
\* completed and holds exactly one evaluation per agent online at dispatch
\* (participatingAgents is that count), and if a dispatched evaluation fails
\* the call returns a failure result with no consensus.
C12_AllOrNothing ==
    /\ [](C12_SessionCoversDispatched /\ C12_FailedEvaluationFailsRound)
    /\ [][C12_DispatchesOnlineAgents]_vars

\* A round of all three agents failed although a flagged agent's evaluation
\* had succeeded and an agent went offline after dispatch.
C12_Witness ==
    \E c \in Calls :
        /\ calls[c].pc = "returned"
        /\ calls[c].result.kind = "failure"
        /\ calls[c].dispatched = AgentOrder
        /\ \E a \in DOMAIN calls[c].evals : calls[c].evals[a] # Rejection
        /\ \E a \in Agents : status[a] = "offline"

\* C13: a failed coordination result keeps enough context for the
\* explainability path: explainCoordination applied to the value returned on
\* the error path of coordinateIdentityDecision returns an explanation and
\* does not raise an error.
C13_FailureResultExplained ==
    \A c \in Calls :
        (/\ calls[c].pc = "returned"
         /\ calls[c].owner = ExplainHandler
         /\ calls[c].result.kind = "failure") =>
            /\ explainOut # Undefined
            /\ explainOut.kind = "explanation"
            /\ explainOut.coordinationId = calls[c].result.coordinationId

\* C14: for every list of evaluations of length 0 up to the roster size
\* passed to calculateConsensus, approvals + rejections equals totalAgents and
\* consensusRatio is a number between 0 and 1 inclusive.
C14_CountsAddUpRatioInUnitRange ==
    consensusOut # Undefined =>
        /\ consensusOut.approvals + consensusOut.rejections = consensusOut.totalAgents
        /\ consensusOut.consensusRatio.den # 0
        /\ 0 <= consensusOut.consensusRatio.num
        /\ consensusOut.consensusRatio.num <= consensusOut.consensusRatio.den

\* Equality of two quotients, neither of them NaN.
RatioEq(r, q) == r.den # 0 /\ q.den # 0 /\ r.num * q.den = q.num * r.den

\* The weight table as the claim states it, in hundredths.
StatedWeight(e) ==
    CASE e.specialization = "validator" -> 40
      [] e.specialization = "consensus" -> 35
      [] e.specialization = "security" -> 25
      [] OTHER -> 33

RECURSIVE StatedWeightSum(_)
StatedWeightSum(evaluations) ==
    IF evaluations = <<>> THEN 0
    ELSE StatedWeight(Head(evaluations)) + StatedWeightSum(Tail(evaluations))

RECURSIVE StatedConfidenceSum(_)
StatedConfidenceSum(evaluations) ==
    IF evaluations = <<>> THEN 0
    ELSE Head(evaluations).confidence * StatedWeight(Head(evaluations))
             + StatedConfidenceSum(Tail(evaluations))

\* The evaluations with every Byzantine one given another confidence and weight.
ByzantineAltered(evaluations) ==
    [i \in 1..Len(evaluations) |->
        IF evaluations[i].isByzantine
        THEN [evaluations[i] EXCEPT !.confidence = 999, !.specialization = "validator"]
        ELSE evaluations[i]]

\* C15: the overall weighted confidence of an explanation is the
\* weight-normalised average of the confidences of the non-Byzantine
\* evaluations (weights 0.4, 0.35, 0.25, otherwise 0.33); it is the same
\* when the Byzantine evaluations are removed or get another confidence and
\* weight, and it is 0 when there is no non-Byzantine evaluation.
C15_OverallConfidenceOverHonest ==
    explainOut # Undefined =>
        LET overall == explainOut.confidenceBreakdown.overall
            honest == SelectSeq(evalInput, IsHonest)
        IN /\ honest = <<>> => overall.num = 0 /\ overall.den # 0
           /\ honest # <<>> =>
                  RatioEq(overall, [num |-> StatedConfidenceSum(honest),
                                    den |-> StatedWeightSum(honest)])
           /\ RatioEq(overall,
                      calculateDetailedConfidence(
                          [agentEvaluations |-> honest]).overall)
           /\ RatioEq(overall,
                      calculateDetailedConfidence(
                          [agentEvaluations |-> ByzantineAltered(evalInput)]).overall)

\* An explanation of a Byzantine evaluation next to honest ones, one of them
\* of a specialization outside the weight table.
C15_Witness ==
    /\ explainOut # Undefined
    /\ FlaggedCount(evalInput) > 0
    /\ \E i \in 1..Len(evalInput) :
           ~evalInput[i].isByzantine /\ evalInput[i].specialization = "auditor"
    /\ \E i \in 1..Len(evalInput) :
           ~evalInput[i].isByzantine /\ evalInput[i].specialization = "validator"

\* The triggers of the anomaly score that hold for a session of the
\* evaluations after t ms, as the claim states them.
Triggers(evaluations, t) ==
    LET total == Len(evaluations)
        approvals == Len(SelectSeq(evaluations, IsApproved))
    IN (IF t > 3000 THEN {"latency"} ELSE {})
       \cup (IF total > 0 /\ 10 * approvals < 7 * total THEN {"ratio"} ELSE {})
       \cup (IF FlaggedCount(evaluations) > 0 THEN {"byzantine"} ELSE {})
       \cup (IF total > 0 /\ SumField(evaluations, "confidence") < 500 * total
             THEN {"confidence"} ELSE {})

\* The stated score of a set of triggers, in tenths.
StatedScore(triggers) ==
    Min(10, (IF "latency" \in triggers THEN 3 ELSE 0)
              + (IF "ratio" \in triggers THEN 4 ELSE 0)
              + (IF "byzantine" \in triggers THEN 5 ELSE 0)
              + (IF "confidence" \in triggers THEN 6 ELSE 0))

\* C16: the anomaly score is the sum of 0.3 (processing time > 3000 ms), 0.4
\* (consensus ratio < 0.7), 0.5 (Byzantine detected) and 0.6 (mean confidence
\* < 0.5) over the triggers that hold, clamped to 1.0; it is within [0,1],
\* and a session with the same triggers and more never has a lower score.
C16_AnomalyScoreSumClamped ==
    explainOut # Undefined =>
        /\ explainOut.anomalyScore = StatedScore(Triggers(evalInput, timeInput))
        /\ explainOut.anomalyScore >= 0
        /\ explainOut.anomalyScore <= 10
        /\ \A other \in EngineLists, t \in ProcessingTimes :
               Triggers(evalInput, timeInput) \subseteq Triggers(other, t) =>
                   calculateAnomalyScore(SessionOf(other, t)) >= explainOut.anomalyScore

\* A score clamped to 1.0: Byzantine, low ratio and low confidence together.
C16_Witness ==
    /\ explainOut # Undefined
    /\ Triggers(evalInput, timeInput) = {"ratio", "byzantine", "confidence"}
    /\ explainOut.anomalyScore = 10

Severities(riskFactors) == [i \in 1..Len(riskFactors) |-> riskFactors[i].severity]

\* C17: identifyRiskFactors returns at most three entries, at most one per
\* rule: HIGH iff the session is Byzantine-detected, MEDIUM iff its consensus
\* ratio is below 0.8, LOW iff its processing time exceeds 5000 ms, each rule
\* whatever the other two give.
C17_RiskFactorsByRule ==
    explainOut # Undefined =>
        LET total == Len(evalInput)
            approvals == Len(SelectSeq(evalInput, IsApproved))
        IN Severities(explainOut.riskFactors) =
               (IF FlaggedCount(evalInput) > 0 THEN <<"HIGH">> ELSE <<>>)
               \o (IF total > 0 /\ 10 * approvals < 8 * total
                   THEN <<"MEDIUM">> ELSE <<>>)
               \o (IF timeInput > 5000 THEN <<"LOW">> ELSE <<>>)

\* The latency rule fired alone.
C17_Witness ==
    /\ explainOut # Undefined
    /\ Severities(explainOut.riskFactors) = <<"LOW">>

\* decisionHistory is the last min(n, 100) of the n explanations built, in the
\* order they were built.
C18_LastExplanationsInOrder ==
    /\ Len(decisionHistory) <= ExplanationCapacity
    /\ Len(decisionHistory) =
           IF explanationsCreated < ExplanationCapacity THEN explanationsCreated
           ELSE ExplanationCapacity
    /\ \A i \in 1..Len(decisionHistory) :
           decisionHistory[i].seq = explanationsCreated - Len(decisionHistory) + i

\* A call appends its explanation; into a full history it drops the head.
C18_RecordDropsOldest ==
    decisionHistory' # decisionHistory =>
        /\ explainOut'.kind = "explanation"
        /\ explainOut'.seq = explanationsCreated + 1
        /\ decisionHistory' =
               IF Len(decisionHistory) < ExplanationCapacity
               THEN Append(decisionHistory, explainOut')
               ELSE Append(Tail(decisionHistory), explainOut')

\* C18: after any sequence of explainCoordination calls, decisionHistory holds
\* at most 100 explanations, the most recent ones in call order, the oldest
\* dropped first.
C18_ExplanationsBounded ==
    []C18_LastExplanationsInOrder /\ [][C18_RecordDropsOldest]_vars

\* The 101st explanation recorded: the first one is gone, the second leads.
C18_Witness ==
    /\ explanationsCreated = ExplanationCapacity + 1
    /\ Len(decisionHistory) = ExplanationCapacity
    /\ decisionHistory[1].seq = 2
    /\ decisionHistory[ExplanationCapacity].seq = ExplanationCapacity + 1

Newest(window) == window[Len(window)]

\* The window is within capacity, holds the latest readings in the order
\* they were sampled, and its newest entry is the current reading.
C19_WindowHoldsLatest ==
    \A v \in DOMAIN twins :
        LET twin == twins[v]
        IN /\ Len(twin.readings) <= WindowCapacity(v)
           /\ Len(twin.readings) =
                  IF twin.updates < WindowCapacity(v) THEN twin.updates
                  ELSE WindowCapacity(v)
           /\ \A i \in 1..Len(twin.readings) :
                  twin.readings[i].seq = twin.updates - Len(twin.readings) + i
           /\ twin.readings # <<>> => Newest(twin.readings).data = twin.currentState

\* A tick appends the reading it sampled; into a full window it removes the
\* oldest entry.
C19_TickEvictsOldest ==
    \A v \in DOMAIN twins :
        twins'[v] # twins[v] =>
            LET window == twins[v].readings
                newData == Newest(twins'[v].readings)
            IN /\ newData.seq = twins[v].updates + 1
               /\ newData.data = twins'[v].currentState
               /\ twins'[v].readings =
                      IF Len(window) < WindowCapacity(v)
                      THEN Append(window, newData)
                      ELSE Append(Tail(window), newData)

\* C19: after any number of ticks a twin's reading window never exceeds its
\* capacity (20 vehicle, 15 pet, 12 IoT); a tick inserting into a full window
\* removes the oldest reading, and the newest window entry is the twin's
\* current reading.
C19_WindowBounded ==
    []C19_WindowHoldsLatest /\ [][C19_TickEvictsOldest]_vars

\* A tick into a full window: the first reading is gone.
C19_Witness ==
    \E v \in DOMAIN twins :
        /\ twins[v].updates = WindowCapacity(v) + 1
        /\ Len(twins[v].readings) = WindowCapacity(v)
        /\ twins[v].readings[1].seq = 2

\* C20: in every reachable state of a vehicle, pet or IoT twin, from
\* construction onward and after every tick, healthScore equals the
\* variant's deduction-table score of currentState.
C20_HealthScoreOfCurrentReading ==
    \A v \in DOMAIN twins :
        twins[v].healthScore = updateHealthScore(v, twins[v].currentState)


\* C21: two twins of one variant that hold equal current readings hold equal
\* health scores once updateHealthScore has run on both, whatever their
\* reading windows, previous scores and alert counters are.
C21_ScoreOfCurrentReadingOnly ==
    \A g \in DOMAIN twins : \A h \in DOMAIN twins :
        (/\ ticks[g] = 1
         /\ ticks[h] = 1
         /\ twins[g].variant = twins[h].variant
         /\ twins[g].currentState = twins[h].currentState)
            => twins[g].healthScore = twins[h].healthScore

\* Both recomputed, from different previous scores, window lengths and
\* alert counters, to a score other than either previous one.
C21_Witness ==
    /\ ticks = <<1, 1>>
    /\ twins[1].variant = "vehicle"
    /\ twins[1].currentState = twins[2].currentState
    /\ Len(twins[1].readings) # Len(twins[2].readings)
    /\ twins[1].alertCount # twins[2].alertCount
    /\ twins[1].healthScore = twins[2].healthScore
    /\ twins[1].healthScore \notin PreviousScores

InRange(x, lo, hi) == lo <= x /\ x <= hi

\* C22: every reading a twin holds has its walked fields inside their
\* ranges: vehicle engineTemp in [50,120], oilPressure in [20,60],
\* batteryVoltage in [11.8,14.2]; pet heartRate in [60,160], bodyTemp in
\* [37.5,40]; IoT cpuUsage in [5,95], memoryUsage in [10,90], temperature
\* in [20,70] (thousandths).
C22_SampledValuesInRange ==
    \A v \in DOMAIN twins :
        LET r == twins[v].currentState
        IN CASE twins[v].variant = "vehicle" ->
                    /\ InRange(r.engineTemp, 50000, 120000)
                    /\ InRange(r.oilPressure, 20000, 60000)
                    /\ InRange(r.batteryVoltage, 11800, 14200)
             [] twins[v].variant = "pet" ->
                    /\ InRange(r.heartRate, 60000, 160000)
                    /\ InRange(r.bodyTemp, 37500, 40000)
             [] OTHER ->
                    /\ InRange(r.cpuUsage, 5000, 95000)
                    /\ InRange(r.memoryUsage, 10000, 90000)
                    /\ InRange(r.temperature, 20000, 70000)

\* C23: once destroy() has cleared a twin's interval no step changes the
\* twin: its window, current reading, update count and health score stay
\* as they were.
C23_NoTickAfterDestroy ==
    [][\A v \in DOMAIN twins :
          ~twins[v].timerActive => /\ v \in DOMAIN twins'
                                   /\ twins'[v] = twins[v]]_vars

\* Torn down after a tick, with ticks of the period still to come.
C23_Witness ==
    \E v \in DOMAIN twins :
        /\ ~twins[v].timerActive
        /\ twins[v].updates = WindowCapacity(v)
        /\ ticks[v] = 1
        /\ ticks[v] < MaxTicks

\* C24: a step that changes a twin leaves the roster (status, Byzantine
\* flags, participation counters) and coordinationHistory unchanged, and a
\* step of a round or of an attack simulation leaves every twin unchanged.
C24_TwinsAndCoordinatorDisjoint ==
    [][/\ twins' # twins =>
             UNCHANGED <<status, isByzantine, decisionsParticipated,
                         coordinationHistory>>
       /\ (\/ calls' # calls
           \/ coordinationHistory' # coordinationHistory
           \/ <<status, isByzantine, decisionsParticipated>>'
                  # <<status, isByzantine, decisionsParticipated>>
           \/ resetTimers' # resetTimers) =>
             twins' = twins]_vars

\* A twin that has ticked twice beside a recorded round that an attacked
\* agent took part in.
C24_Witness ==
    /\ \E v \in DOMAIN twins : twins[v].updates = 2 /\ twins[v].healthScore < 100
    /\ \E a \in Agents : isByzantine[a] /\ decisionsParticipated[a] = 1
    /\ Len(coordinationHistory) = 1
    /\ calls[1].pc = "returned"

\* C25: the error a creation throws after its round was rejected carries
\* the session of that round: its id, its evaluations and its consensus.
C25_RejectionCarriesSession ==
    \A t \in Creations :
        (creations[t].pc = "threw" /\ creations[t].call # 0) =>
            LET thrown == ErrorObject(creations[t].error)
                session == calls[creations[t].call].result
            IN /\ {"coordinationId", "evaluations", "consensus"}
                      \subseteq DOMAIN thrown
               /\ thrown.coordinationId = session.coordinationId
               /\ thrown.evaluations = session.evaluations
               /\ thrown.consensus = session.consensus

\* C26: every creation attempt, whatever its arguments and its outcome, has
\* dispatched a coordination round: an attempt that has started or ended
\* holds the round it ran.
C26_CreationStartsWithRound ==
    \A t \in Creations :
        creations[t].pc # "idle" =>
            /\ creations[t].call # 0
            /\ calls[creations[t].call].pc # "idle"
            /\ calls[creations[t].call].owner = t

\* C27: for three evaluations of which exactly one is a Byzantine rejection
\* and the other two approve, the session records originalDecision APPROVED,
\* correctedDecision APPROVED and the Byzantine agent's id in
\* byzantineAgentIds.
C27_OneByzantineOfThree ==
    (/\ faultOut # Undefined
     /\ Len(evalInput) = 3
     /\ Len(SelectSeq(evalInput, IsFlagged)) = 1
     /\ \A i \in 1..3 :
            IF evalInput[i].isByzantine
            THEN evalInput[i].decision = "REJECTED"
            ELSE evalInput[i].decision = "APPROVED") =>
        /\ faultOut.byzantineFaultHandling.originalDecision = "APPROVED"
        /\ faultOut.byzantineFaultHandling.correctedDecision = "APPROVED"
        /\ faultOut.byzantineFaultHandling.byzantineAgentIds
               = AgentIds(SelectSeq(evalInput, IsFlagged))

Present(v) ==
    /\ v.jsType # "undefined"
    /\ v.jsType = "string" => v.length > 0

NumberIn(v, lo, hi) == v.jsType = "number" /\ lo <= v.val /\ v.val <= hi

\* A record with id, type and data that is a well-formed vehicle, pet or
\* iot device, as the claim words it.
WellFormed(identityData, currentYear) ==
    /\ identityData.jsType = "object"
    /\ Present(identityData.id)
    /\ Present(identityData.type)
    /\ identityData.data.jsType = "object"
    /\ \/ /\ identityData.type.val = "vehicle"
          /\ identityData.data.vin.jsType = "string"
          /\ identityData.data.vin.length = 17
          /\ identityData.data.mileage.jsType = "number"
          /\ identityData.data.mileage.val >= 0
          /\ NumberIn(identityData.data.year, 1900, currentYear + 1)
       \/ /\ identityData.type.val = "pet"
          /\ identityData.data.microchipId.jsType = "string"
          /\ identityData.data.microchipId.length >= 15
          /\ NumberIn(identityData.data.age, 0, 30)
       \/ /\ identityData.type.val = "iot"
          /\ identityData.data.serialNumber.jsType = "string"
          /\ identityData.data.serialNumber.length >= 3

\* A vehicle record whose VIN is missing or not 17 characters long.
BadVinVehicle(identityData) ==
    /\ identityData.jsType = "object"
    /\ identityData.type.jsType = "string"
    /\ identityData.type.val = "vehicle"
    /\ \/ identityData.data.jsType # "object"
       \/ identityData.data.vin.jsType # "string"
       \/ identityData.data.vin.length # 17

\* A record whose type is none of vehicle, pet and iot.
UnsupportedType(identityData) ==
    /\ identityData.jsType = "object"
    /\ \/ identityData.type.jsType # "string"
       \/ identityData.type.val \notin {"vehicle", "pet", "iot"}

\* C28: ValidateIdentityData returns valid = true for a well-formed vehicle,
\* pet or iot record, and valid = false for a vehicle whose VIN is missing
\* or not 17 characters long and for every type outside vehicle, pet, iot.
C28_ValidatesWellFormedRecords ==
    validationOut # Undefined =>
        /\ WellFormed(ledgerInput.identityData, ledgerInput.currentYear) =>
               validationOut.valid
        /\ BadVinVehicle(ledgerInput.identityData) => ~validationOut.valid
        /\ UnsupportedType(ledgerInput.identityData) => ~validationOut.valid

\* A vehicle of next year's model accepted, in a year in which the same
\* record one year newer is refused.
C28_Witness ==
    /\ validationOut # Undefined
    /\ validationOut.valid
    /\ WellFormed(ledgerInput.identityData, ledgerInput.currentYear)
    /\ ledgerInput.identityData.type.val = "vehicle"
    /\ ledgerInput.identityData.data.year.val = ledgerInput.currentYear + 1
    /\ ledgerInput.identityData.data.mileage.val = 0

\* Every evaluation collected is REJECTED exactly when it is marked
\* Byzantine.
C29_RejectedIffByzantine ==
    \A c \in Calls : \A a \in DOMAIN calls[c].evals :
        (calls[c].evals[a].decision = "REJECTED") <=> calls[c].evals[a].isByzantine

\* The evaluation an agent returns in a step is Byzantine only if the agent's
\* flag is true in the state the step starts from, and is APPROVED if the
\* flag is false there.
C29_FlagReadAtWake ==
    \A c \in Calls : \A a \in Agents :
        (/\ calls[c].pc # "idle"
         /\ a \notin DOMAIN calls[c].evals
         /\ a \in DOMAIN calls'[c].evals) =>
            /\ calls'[c].evals[a].isByzantine => isByzantine[a]
            /\ ~isByzantine[a] => /\ calls'[c].evals[a].decision = "APPROVED"
                                  /\ ~calls'[c].evals[a].isByzantine

\* C29: an evaluation is REJECTED exactly when it is marked Byzantine, and
\* an agent returns a Byzantine evaluation only if its flag is true at the
\* moment its latency ends; an agent whose flag is false at that moment
\* returns APPROVED, whatever the flag was at dispatch.
C29_ByzantineOnlyIfFlaggedAtWake ==
    []C29_RejectedIffByzantine /\ [][C29_FlagReadAtWake]_vars

\* A Byzantine evaluation from an agent that was attacked after the round
\* was dispatched, beside an approval of a flagged agent.
C29_Witness ==
    \E a \in DOMAIN calls[1].evals :
        /\ calls[1].evals[a].isByzantine
        /\ \A i \in 1..Len(resetTimers) :
               resetTimers[i].agent = a =>
                   resetTimers[i].due - AttackDuration > calls[1].coordinationStart
        /\ \E b \in DOMAIN calls[1].evals :
               isByzantine[b] /\ ~calls[1].evals[b].isByzantine

\* The value returned on the error path has an error description and
\* neither consensus nor finalDecision, and no entry of the history has its
\* shape.
C30_FailureResultShape ==
    /\ \A c \in Calls :
           (calls[c].pc = "returned" /\ calls[c].result.kind = "failure") =>
               /\ "error" \in DOMAIN calls[c].result
               /\ calls[c].result.error # ""
               /\ {"consensus", "finalDecision"} \cap DOMAIN calls[c].result = {}
    /\ \A i \in 1..Len(coordinationHistory) :
           /\ coordinationHistory[i].kind = "session"
           /\ {"consensus", "finalDecision"} \subseteq DOMAIN coordinationHistory[i]

\* The step in which a call returns on the error path leaves the history
\* as it is, and afterwards the call dispatches nothing again: its result
\* and its dispatch list stay, and an agent takes part at most once.
C30_FailureLeavesHistory ==
    \A c \in Calls :
        /\ (/\ calls[c].pc = "awaiting"
            /\ calls'[c].pc = "returned"
            /\ calls'[c].result.kind = "failure") =>
               UNCHANGED <<coordinationHistory, sessionsCreated>>
        /\ (calls[c].pc = "returned" /\ calls[c].result.kind = "failure") =>
               /\ calls'[c].pc = "returned"
               /\ calls'[c].result = calls[c].result
               /\ calls'[c].dispatched = calls[c].dispatched
               /\ \A a \in DOMAIN calls[c].evals :
                      decisionsParticipated'[a] = decisionsParticipated[a]

\* C30: a coordinateIdentityDecision call that ends on the error path
\* returns a result with an error description and no consensus or
\* finalDecision, leaves coordinationHistory unchanged, and is not retried.
C30_ErrorPathRecordsNothing ==
    []C30_FailureResultShape /\ [][C30_FailureLeavesHistory]_vars

\* A failed round all of whose agents have woken once, with nothing
\* recorded.
C30_Witness ==
    /\ calls[1].pc = "returned"
    /\ calls[1].result.kind = "failure"
    /\ DOMAIN calls[1].evals = Agents
    /\ \A a \in Agents : decisionsParticipated[a] = 1
    /\ coordinationHistory = <<>>
    /\ sessionsCreated = 0

\* The deductions the vehicle table is stated to make for a reading.
StatedEngineDeduction(reading) == IF reading.engineTemp > 100000 THEN 20 ELSE 0

StatedEngineDeductionTiered(reading) ==
    IF reading.engineTemp > 100000 THEN 20
    ELSE IF reading.engineTemp > 90000 THEN 10 ELSE 0

StatedOtherDeductions(reading) ==
    (IF reading.oilPressure < 25000 THEN 15 ELSE 0)
      + (IF reading.batteryVoltage < 12000 THEN 10 ELSE 0)
      + 5 * reading.diagnosticCodes

Floored(score) == IF score < 0 THEN 0 ELSE score

\* C31 as stated: a vehicle twin's health score is 100 minus 20 if engine
\* temperature > 100, minus 15 if oil pressure < 25, minus 10 if battery
\* voltage < 12.0, minus 5 per active diagnostic code, floored at 0, with no
\* other deduction, for every current reading.
C31_VehicleScoreByTable ==
    \A v \in DOMAIN twins :
        twins[v].variant = "vehicle" =>
            twins[v].healthScore =
                Floored(100 - StatedEngineDeduction(twins[v].currentState)
                            - StatedOtherDeductions(twins[v].currentState))

\* C31 amended: the same table with one more row, minus 10 if engine
\* temperature is above 90 and at most 100.
C31_VehicleScoreByTieredTable ==
    \A v \in DOMAIN twins :
        twins[v].variant = "vehicle" =>
            twins[v].healthScore =
                Floored(100 - StatedEngineDeductionTiered(twins[v].currentState)
                            - StatedOtherDeductions(twins[v].currentState))

\* A vehicle after a tick that drew a diagnostic code, with every row of
\* the table at work.
C31_Witness ==
    \E v \in DOMAIN twins :
        /\ twins[v].variant = "vehicle"
        /\ ticks[v] >= 1
        /\ twins[v].currentState.diagnosticCodes = 1
        /\ twins[v].currentState.engineTemp > 100000
        /\ twins[v].currentState.oilPressure < 25000
        /\ twins[v].currentState.batteryVoltage < 12000
        /\ twins[v].healthScore = 50

\* C32: the register handler goes on to the ledger's RegisterIdentity
\* whenever all participating agents approved, answers 400 only when the
\* agents' decision is a rejection, and never invokes the ledger for a
\* rejected identity.
C32_ApprovedReachesLedger ==
    \A c \in Calls :
        (/\ calls[c].pc = "returned"
         /\ calls[c].owner = RegisterHandler
         /\ calls[c].result.kind = "session"
         /\ httpOut # Undefined
         /\ httpOut.coordinationId = calls[c].result.coordinationId) =>
            LET session == calls[c].result
                decision == session.finalDecision.finalDecision
            IN /\ (/\ session.participatingAgents > 0
                   /\ session.consensus.approvals = session.participatingAgents) =>
                      httpOut.ledgerInvoked /\ httpOut.status = 200
               /\ httpOut.status = 400 => decision = "REJECTED"
               /\ decision = "REJECTED" => ~httpOut.ledgerInvoked

\* The first stage of RegisterIdentity the record fails on the state, in the
\* order validation, consensus, authentication; "" when it passes all three.
FirstFailedStage(state, identityData) ==
    IF \E currentYear \in CurrentYears :
          ~ValidateIdentityData(identityData, currentYear).valid
    THEN "Validation failed"
    ELSE IF ~SimulateMultiAgentConsensus(state, identityData).consensusReached
    THEN "Consensus failed"
    ELSE IF ApplyAuthenticationRules(state, identityData) # ""
    THEN "Authentication failed"
    ELSE ""

\* C33: RegisterIdentity runs validation, then consensus, then the
\* authentication rules and writes the identity only if all three succeed;
\* if a stage fails it emits RegistrationError, throws, and leaves the
\* ledger unchanged: no identity written, totalIdentities not incremented.
C33_RegisterAllOrNothing ==
    [][(txCount' # txCount /\ txOut'.kind \in {"success", "error"}) =>
          LET identityData == txOut'.request
          IN /\ identityData \in ContractRecords =>
                   /\ txOut'.stage = FirstFailedStage(worldState, identityData)
                   /\ txOut'.kind = "success" <=>
                         FirstFailedStage(worldState, identityData) = ""
             /\ txOut'.kind = "success" =>
                   /\ identityData.id.val \in DOMAIN worldState'
                   /\ worldState'[identityData.id.val].data = identityData.data
             /\ txOut'.kind = "error" =>
                   /\ txOut'.event = "RegistrationError"
                   /\ worldState' = worldState
                   /\ IdentityKeys(worldState') = IdentityKeys(worldState)
                   /\ ReportedTotal(worldState') = ReportedTotal(worldState)]_vars

\* A registration refused by the authentication rules on an initialised
\* ledger that holds one identity.
C33_Witness ==
    /\ txOut # Undefined
    /\ txOut.kind = "error"
    /\ txOut.stage = "Authentication failed"
    /\ IdentityKeys(worldState) = {"VEH-001"}
    /\ ReportedTotal(worldState) = JsNumber(1)

\* C34: an identity id is registered at most once: a RegisterIdentity call
\* whose id is already stored fails and leaves the stored record for that
\* id unchanged, so the record of a first successful registration is never
\* overwritten by a later call.
C34_RegisteredAtMostOnce ==
    [][(txCount' # txCount /\ txOut'.kind \in {"success", "error"}) =>
          /\ (/\ txOut'.request \in ContractRecords
              /\ txOut'.request.id.val \in IdentityKeys(worldState)) =>
                 txOut'.kind = "error"
          /\ \A key \in IdentityKeys(worldState) :
                /\ key \in DOMAIN worldState'
                /\ worldState'[key] = worldState[key]]_vars

\* The sessions of the rounds run so far.
SessionsBuilt ==
    {coordinationHistory[i] : i \in 1..Len(coordinationHistory)}
      \cup {calls[c].result : c \in {d \in Calls : /\ calls[d].pc = "returned"
                                                   /\ calls[d].result.kind = "session"}}

HonestCount(evaluations) ==
    Cardinality({i \in 1..Len(evaluations) : ~evaluations[i].isByzantine})

\* C35: in every session built from the agents' evaluations (non-Byzantine
\* ones APPROVED, Byzantine ones REJECTED) the Byzantine-corrected final
\* decision is REJECTED exactly when the session holds no non-Byzantine
\* evaluation, and APPROVED otherwise, whatever the raw ratio was.
C35_RejectedIffNoHonestEvaluation ==
    \A session \in SessionsBuilt :
        /\ \A i \in 1..Len(session.agentEvaluations) :
              session.agentEvaluations[i].decision =
                  (IF session.agentEvaluations[i].isByzantine
                   THEN "REJECTED" ELSE "APPROVED")
        /\ session.finalDecision.finalDecision =
              (IF HonestCount(session.agentEvaluations) = 0
               THEN "REJECTED" ELSE "APPROVED")

\* A session with one honest evaluation against two Byzantine ones: the raw
\* ratio rejects and the corrected decision approves.
C35_Witness ==
    \E session \in SessionsBuilt :
        /\ Len(session.agentEvaluations) = 3
        /\ HonestCount(session.agentEvaluations) = 1
        /\ session.consensus.recommendedDecision = "REJECTED"
        /\ session.finalDecision.finalDecision = "APPROVED"

\* C36: for every integer limit >= 0 the three accessors return at most
\* limit entries, namely the most recent ones, most recent first for the two
\* history accessors.
C36_AtMostLimitMostRecent ==
    [][httpOut' # httpOut =>
          LET out == httpOut'
              history == IF out.accessor = "getCoordinationHistory"
                         THEN coordinationHistory ELSE decisionHistory
              n == Len(out.entries)
          IN /\ n <= out.limit
             /\ n <= Len(history)
             /\ \A i \in 1..n :
                   IF out.accessor = "exportMLDataset"
                   THEN out.entries[i].seq = history[Len(history) - n + i].seq
                   ELSE out.entries[i] = history[Len(history) + 1 - i]]_vars

\* The weight the claim gives an approving vote.
VoteWeight(approved, weight) == IF approved THEN weight ELSE 0

\* C37: in SimulateMultiAgentConsensus (weights DeviceAgent 1,
\* CoordinatorAgent 2, RegionalCoordinator 2) consensus is reached iff the
\* approving weight is at least floor(2*5/3)+1 = 4, that is iff both the
\* CoordinatorAgent and the RegionalCoordinator approve; the DeviceAgent's
\* vote never changes the outcome.
C37_ConsensusIffBothCoordinators ==
    (txOut # Undefined /\ txOut.kind = "consensus"
        /\ txOut.result.kind = "consensus") =>
        LET result == txOut.result
            device == result.agentDecisions[1]
            coordinator == result.agentDecisions[2]
            regional == result.agentDecisions[3]
        IN /\ result.totalVotes = 5
           /\ result.requiredVotes = 4
           /\ result.votes = VoteWeight(device, 1) + VoteWeight(coordinator, 2)
                               + VoteWeight(regional, 2)
           /\ result.consensusReached <=> result.votes >= 4
           /\ result.consensusReached <=> (coordinator /\ regional)

\* Consensus reached against the DeviceAgent's vote alone, asked on a
\* ledger that already holds an identity.
C37_Witness ==
    /\ txOut # Undefined
    /\ txOut.kind = "consensus"
    /\ txOut.result.kind = "consensus"
    /\ txOut.result.agentDecisions = <<FALSE, TRUE, TRUE>>
    /\ txOut.result.consensusReached
    /\ IdentityKeys(worldState) # {}

\* C38: after any sequence of InitLedger and RegisterIdentity calls,
\* CONTRACT_INFO.totalIdentities equals the number of identity records
\* stored on the ledger.
C38_TotalEqualsStoredIdentities ==
    LET info == ReadIdentity(worldState, ContractInfoKey)
    IN (Truthy(info) /\ Truthy(info.contractVersion)) =>
          info.totalIdentities = JsNumber(Cardinality(IdentityKeys(worldState)))

VehicleTwinIds == {v \in DOMAIN twins : twins[v].variant = "vehicle"}

C39_AlertCountZeroOrOne ==
    \A v \in VehicleTwinIds :
        /\ twins[v].alertCount \in {0, 1}
        /\ (twins[v].alertCount = 0 /\ twins[v].updates > 0) =>
               twins[v].healthScore >= 80

C39_AlertRaisedOnceByTick ==
    \A v \in VehicleTwinIds :
        (v \in DOMAIN twins' /\ twins'[v] # twins[v]) =>
            /\ twins'[v].alertCount >= twins[v].alertCount
            /\ twins[v].alertCount = 1 => twins'[v].alertCount = 1
            /\ twins[v].alertCount = 0 =>
                   twins'[v].alertCount =
                       (IF twins'[v].healthScore < 80 THEN 1 ELSE 0)

\* C39: a vehicle twin's alertCount is 0 or 1 in every reachable state and
\* never decreases: it goes from 0 to 1 on the first tick whose recomputed
\* healthScore is below 80 and no later tick changes it, however many more
\* low-health readings follow.
C39_AlertCountLatches ==
    []C39_AlertCountZeroOrOne /\ [][C39_AlertRaisedOnceByTick]_vars

\* A vehicle twin after two ticks in a row with a health score below 80,
\* its alertCount still 1.
C39_Witness ==
    \E v \in VehicleTwinIds :
        /\ ticks[v] = MaxTicks
        /\ twins[v].alertCount = 1
        /\ twins[v].healthScore < 80
        /\ Len(twins[v].readings) >= 2
        /\ updateHealthScore("vehicle",
               twins[v].readings[Len(twins[v].readings) - 1].data) < 80
====
